---------------------------- MODULE Spec2Model ----------------------------
(***************************************************************************)
(* Model of the wifi-heatmapper measurement engine (src/lib/iperfRunner.ts, *)
(* held in src/unnamed/part_000): the survey orchestrator runSurveyTests,  *)
(* the bandwidth-test runner runSingleTest, the output normalizer          *)
(* extractIperfData and the progress / cancellation channel.               *)
(*                                                                         *)
(* JavaScript runs one task to completion: between two awaits nothing else *)
(* runs.  Each action below is therefore one such synchronous segment, from*)
(* the resumption of an await (an adapter call or subprocess returning, a  *)
(* timer firing) to the next await, the return or the throw.  The stop     *)
(* request and the timers are separate tasks and interleave only at the    *)
(* awaits.                                                                 *)
(*                                                                         *)
(* Three further specifications stand beside that of the engine:           *)
(* ExtractSpec (extractIperfData on its own), ToastSpec (the NewToast      *)
(* component) and PanelSpec (TabPanel with its SettingsEditor).  Each      *)
(* leaves the variables of the others as they are at load.                 *)
(***************************************************************************)
EXTENDS Integers, Sequences, FiniteSets, TLC

(***************************************************************************)
(* Values.  A nullable value (null / undefined in the source) is the empty *)
(* set; a present value x is {x}.                                          *)
(***************************************************************************)
Null == {}
Some(x) == {x}
The(s) == CHOOSE x \in s : TRUE

\* Math.round(a / b) for a >= 0, b > 0: the nearest integer, halves upwards.
MathRound(a, b) == (2 * a + b) \div (2 * b)

(***************************************************************************)
(* Bounds of the model.                                                    *)
(***************************************************************************)
\* The longest a bandwidth sub-test is observed, in timer periods.
MaxElapsed == 5
\* How many times the Cancel button of one toast is clicked.
MaxClicks == 2

(***************************************************************************)
(* Program constants.                                                      *)
(***************************************************************************)
maxRetries == 1
\* setInterval period of the progress simulation, in milliseconds.
ProgressIntervalMs == 200
\* The ceiling of the simulated intra-test percentage.
ProgressCap == 99
\* How many servers handleServerBlur keeps in the history.
HistoryLimit == 10

(***************************************************************************)
(* Inputs: the settings a start request may carry and what the platform    *)
(* adapter and the iperf3 subprocess may answer.                           *)
(***************************************************************************)
Durations == {1}

Settings ==
    [iperfServerAdrs : {"localhost", "192.168.1.10"},
     testDuration : Durations,
     iperfTcpEnabled : BOOLEAN,
     iperfUdpEnabled : BOOLEAN]

Reasons == {"", "not available"}

\* One entry of a getWifi() snapshot (the fields the engine reads).
WifiEntry(ssid, bssid, band, channel, signalStrength, rssi) ==
    [ssid |-> ssid, bssid |-> bssid, band |-> band, channel |-> channel,
     signalStrength |-> signalStrength, rssi |-> rssi]

WifiEntries ==
    {WifiEntry("home", "aa:01", 5180, 36, 40, -70),
     WifiEntry("home", "aa:01", 5180, 36, 45, -70),
     WifiEntry("home", "aa:01", 5180, 36, 40, -62),
     WifiEntry("home", "aa:02", 5180, 36, 40, -70),
     WifiEntry("cafe", "aa:01", 5180, 36, 40, -70),
     WifiEntry("home", "aa:01", 2437, 36, 40, -70),
     WifiEntry("home", "aa:01", 5180, 40, 40, -70)}

\* What the first two getWifi() calls answer.  Only the third answer is
\* compared with the first, so the network may change in the third alone;
\* of the second only signalStrength is read.
SameNetworkEntries ==
    {e \in WifiEntries :
        /\ e.ssid = "home" /\ e.bssid = "aa:01" /\ e.band = 5180
        /\ e.channel = 36 /\ e.rssi = -70}

\* scanWifi(): the name of the entry flagged currentSSID, or none flagged.
ScanResults == {Some("home"), Some("<redacted>"), Null}

(***************************************************************************)
(* Output normalizer                                                       *)
(***************************************************************************)
\* Faulty variant: x?.f || null, which takes a 0 for a missing value.
Field_ZeroIsMissing(opt, f) ==
    IF opt = Null \/ The(opt)[f] = Some(0) THEN Null ELSE The(opt)[f]

\* x?.f ?? null
Field(opt, f) == IF opt = Null THEN Null ELSE The(opt)[f]

IperfTestProperty(bps, retr, jit, lost, pkts) ==
    [bitsPerSecond |-> bps, retransmits |-> retr, jitterMs |-> jit,
     lostPackets |-> lost, packetsReceived |-> pkts, signalStrength |-> 0]

\* Faulty variant: the "not run" result reports a throughput of zero.
NullResult_ZeroThroughput == IperfTestProperty(Some(0), Null, Null, Null, Null)

NullResult == IperfTestProperty(Null, Null, Null, Null, Null)

\* Faulty variant: the jitter of the summary is returned for TCP too.
extractIperfData_JitterForTcp(result, isUdp) ==
    IF result.end = Null
    THEN NullResult
    ELSE LET end == The(result.end)
             isNewVersion == end.sum_received # Null
             raw == IF isNewVersion
                    THEN IF isUdp
                         THEN Field(end.sum, "bits_per_second")
                         ELSE Field(end.sum_received, "bits_per_second")
                    ELSE Field(end.sum, "bits_per_second")
             bitsPerSecond == IF raw = Null \/ raw = Some(0) THEN Null ELSE raw
             retransmits == IF isNewVersion
                            THEN Field(end.sum_sent, "retransmits")
                            ELSE Field(end.sum, "retransmits")
         IN  IperfTestProperty(
                 bitsPerSecond,
                 retransmits,
                 Field(end.sum, "jitter_ms"),
                 IF isUdp THEN Field(end.sum, "lost_packets") ELSE Null,
                 IF isUdp THEN Field(end.sum, "packets") ELSE Null)

\* Faulty variant: the retransmit count is read from the summary always.
extractIperfData_RetransmitsFromSum(result, isUdp) ==
    IF result.end = Null
    THEN NullResult
    ELSE LET end == The(result.end)
             isNewVersion == end.sum_received # Null
             raw == IF isNewVersion
                    THEN IF isUdp
                         THEN Field(end.sum, "bits_per_second")
                         ELSE Field(end.sum_received, "bits_per_second")
                    ELSE Field(end.sum, "bits_per_second")
             bitsPerSecond == IF raw = Null \/ raw = Some(0) THEN Null ELSE raw
             retransmits == Field(end.sum, "retransmits")
         IN  IperfTestProperty(
                 bitsPerSecond,
                 retransmits,
                 IF isUdp THEN Field(end.sum, "jitter_ms") ELSE Null,
                 IF isUdp THEN Field(end.sum, "lost_packets") ELSE Null,
                 IF isUdp THEN Field(end.sum, "packets") ELSE Null)

\* Faulty variant: a throughput of zero is returned as it is.
extractIperfData_KeepsZero(result, isUdp) ==
    IF result.end = Null
    THEN NullResult
    ELSE LET end == The(result.end)
             isNewVersion == end.sum_received # Null
             raw == IF isNewVersion
                    THEN IF isUdp
                         THEN Field(end.sum, "bits_per_second")
                         ELSE Field(end.sum_received, "bits_per_second")
                    ELSE Field(end.sum, "bits_per_second")
             bitsPerSecond == raw
             retransmits == IF isNewVersion
                            THEN Field(end.sum_sent, "retransmits")
                            ELSE Field(end.sum, "retransmits")
         IN  IperfTestProperty(
                 bitsPerSecond,
                 retransmits,
                 IF isUdp THEN Field(end.sum, "jitter_ms") ELSE Null,
                 IF isUdp THEN Field(end.sum, "lost_packets") ELSE Null,
                 IF isUdp THEN Field(end.sum, "packets") ELSE Null)

\* Faulty variant: with the newer schema UDP reads sum_received too.
extractIperfData_UdpReadsReceived(result, isUdp) ==
    IF result.end = Null
    THEN NullResult
    ELSE LET end == The(result.end)
             isNewVersion == end.sum_received # Null
             raw == IF isNewVersion
                    THEN Field(end.sum_received, "bits_per_second")
                    ELSE Field(end.sum, "bits_per_second")
             bitsPerSecond == IF raw = Null \/ raw = Some(0) THEN Null ELSE raw
             retransmits == IF isNewVersion
                            THEN Field(end.sum_sent, "retransmits")
                            ELSE Field(end.sum, "retransmits")
         IN  IperfTestProperty(
                 bitsPerSecond,
                 retransmits,
                 IF isUdp THEN Field(end.sum, "jitter_ms") ELSE Null,
                 IF isUdp THEN Field(end.sum, "lost_packets") ELSE Null,
                 IF isUdp THEN Field(end.sum, "packets") ELSE Null)

extractIperfData(result, isUdp) ==
    IF result.end = Null
    THEN NullResult
    ELSE LET end == The(result.end)
             isNewVersion == end.sum_received # Null
             raw == IF isNewVersion
                    THEN IF isUdp
                         THEN Field(end.sum, "bits_per_second")
                         ELSE Field(end.sum_received, "bits_per_second")
                    ELSE Field(end.sum, "bits_per_second")
             bitsPerSecond == IF raw = Null \/ raw = Some(0) THEN Null ELSE raw
             retransmits == IF isNewVersion
                            THEN Field(end.sum_sent, "retransmits")
                            ELSE Field(end.sum, "retransmits")
         IN  IperfTestProperty(
                 bitsPerSecond,
                 retransmits,
                 IF isUdp THEN Field(end.sum, "jitter_ms") ELSE Null,
                 IF isUdp THEN Field(end.sum, "lost_packets") ELSE Null,
                 IF isUdp THEN Field(end.sum, "packets") ELSE Null)

\* The combined summary section of an iperf3 JSON report.
Sum(bps, jit, lost, pkts, retr) ==
    [bits_per_second |-> bps, jitter_ms |-> jit, lost_packets |-> lost,
     packets |-> pkts, retransmits |-> retr]

\* What the subprocess of one sub-test may do: fail to execute, print
\* something JSON.parse rejects, or print a report.
ExecOutcomes ==
    {[kind |-> "execError"],
     [kind |-> "parseError"],
     [kind |-> "json",
      stdout |-> [end |-> Some([
          sum_received |-> Some([bits_per_second |-> Some(500)]),
          sum_sent |-> Some([retransmits |-> Some(12)]),
          sum |-> Some(Sum(Some(51), Some(2), Some(1), Some(90), Null))])]],
     [kind |-> "json",
      stdout |-> [end |-> Some([
          sum_received |-> Null,
          sum_sent |-> Null,
          sum |-> Some(Sum(Some(0), Null, Null, Null, Some(3)))])]],
     [kind |-> "json", stdout |-> [end |-> Null]]}

\* The subprocess failed to execute, or JSON.parse rejected what it printed.
SubprocessFailed(outcome) == outcome.kind # "json"

\* runSingleTest's try / catch: the value the sub-test returns.
runSingleTestResult(outcome, isUdp) ==
    IF outcome.kind = "json"
    THEN extractIperfData(outcome.stdout, isUdp)
    ELSE NullResult

\* Faulty variant: the catch of runSingleTest throws the error on.
runSingleTestRejects_Rethrows(outcome) == SubprocessFailed(outcome)

\* Whether runSingleTest rejects: its catch takes every error of the try
\* block and returns, so nothing reaches the caller.
runSingleTestRejects(outcome) == FALSE

\* By how many milliseconds a callback of the polling timer may run late.
Lateness == {0, 90}

\* Faulty variant: the percentage is not held at 99.
SimulatedPercent_Uncapped(elapsedMs, duration) ==
    MathRound(elapsedMs * 100, duration * 1000)

\* The percentage the polling timer reports after `elapsedMs`.
SimulatedPercent(elapsedMs, duration) ==
    LET testDurationMs == duration * 1000
        percent == MathRound(elapsedMs * 100, testDurationMs)
    IN  IF percent < ProgressCap THEN percent ELSE ProgressCap


(***************************************************************************)
(* Progress / cancellation channel                                         *)
(***************************************************************************)
\* A display string.  `${toMbps(down)} / ... Mbps` and
\* `${toMbps(down)} / ${toMbps(up)} Mbps` keep the arguments of toMbps.
Text(s) == [kind |-> "text", text |-> s, down |-> Null, up |-> Null]
HalfMbps(down) == [kind |-> "half", text |-> "", down |-> down, up |-> Null]
FullMbps(down, up) == [kind |-> "full", text |-> "", down |-> down, up |-> up]

\* One line `${label}: ${value}` of a status.
Line(label, value) == [label |-> label, value |-> value]

initialStates ==
    [type |-> "update",
     header |-> "Measurement beginning",
     strength |-> "-",
     tcp |-> Text("-/- Mbps"),
     udp |-> Text("-/- Mbps"),
     tcpEnabled |-> TRUE,
     udpEnabled |-> TRUE,
     progress |-> 0]

\* The value of the module-level displayStates when the module is loaded.
displayStatesAtLoad ==
    [type |-> "update",
     header |-> "In progress",
     strength |-> "-",
     tcp |-> Text("-/- Mbps"),
     udp |-> Text("-/- Mbps"),
     tcpEnabled |-> TRUE,
     udpEnabled |-> TRUE,
     progress |-> 0]

\* Faulty variant: the fields of a win over those of b.
Spread_KeepsFirst(a, b) ==
    [k \in DOMAIN a \cup DOMAIN b |-> IF k \in DOMAIN a THEN a[k] ELSE b[k]]

\* { ...a, ...b }
Spread(a, b) ==
    [k \in DOMAIN a \cup DOMAIN b |-> IF k \in DOMAIN b THEN b[k] ELSE a[k]]

getUpdatedMessage(ds) ==
    LET strength == IF ds.strength # "-" THEN ds.strength \o "%" ELSE ds.strength
        statusLines ==
            <<Line("Signal strength", Text(strength))>>
            \o (IF ds.tcpEnabled THEN <<Line("TCP", ds.tcp)>> ELSE <<>>)
            \o (IF ds.udpEnabled THEN <<Line("UDP", ds.udp)>> ELSE <<>>)
    IN  [type |-> ds.type,
         header |-> ds.header,
         status |-> statusLines,
         tcpEnabled |-> ds.tcpEnabled,
         udpEnabled |-> ds.udpEnabled,
         progress |-> ds.progress]

\* The message of the top-level catch: it carries no progress.
ErrorMessage ==
    [type |-> "done",
     status |-> <<Text("Error taking measurements")>>,
     header |-> "Error"]

(***************************************************************************)
(* Helpers of the orchestrator                                             *)
(***************************************************************************)
\* Faulty variant: the channel is not compared.
validateWifiDataConsistency_IgnoresChannel(wifiDataBefore, wifiDataAfter) ==
    /\ wifiDataBefore.bssid = wifiDataAfter.bssid
    /\ wifiDataBefore.ssid = wifiDataAfter.ssid
    /\ wifiDataBefore.band = wifiDataAfter.band

validateWifiDataConsistency(wifiDataBefore, wifiDataAfter) ==
    /\ wifiDataBefore.bssid = wifiDataAfter.bssid
    /\ wifiDataBefore.ssid = wifiDataAfter.ssid
    /\ wifiDataBefore.band = wifiDataAfter.band
    /\ wifiDataBefore.channel = wifiDataAfter.channel

RECURSIVE SeqSum(_)
SeqSum(arr) == IF arr = <<>> THEN 0 ELSE arr[1] + SeqSum(Tail(arr))

\* Faulty variant: the mean is truncated, not rounded.
arrayAverage_Truncates(arr) ==
    IF Len(arr) = 0 THEN 0 ELSE SeqSum(arr) \div Len(arr)

arrayAverage(arr) ==
    IF Len(arr) = 0 THEN 0 ELSE MathRound(SeqSum(arr), Len(arr))

\* Signal strengths are percentages.
StrengthRange == 0 .. 100

\* parseInt of a decimal string; -1 stands for NaN.
parseInt(s) ==
    IF \E n \in StrengthRange : ToString(n) = s
    THEN CHOOSE n \in StrengthRange : ToString(n) = s
    ELSE -1

\* utils.percentageToRssi is kept as a term over its argument.
percentageToRssi(percentage) == [percentageToRssi |-> percentage]

getDefaultIperfResults ==
    [tcpDownload |-> NullResult, tcpUpload |-> NullResult,
     udpDownload |-> NullResult, udpUpload |-> NullResult]

\* ssidName.includes("redacted"), over the names ScanResults offers.
IncludesRedacted(name) == name = "<redacted>"

CancelledResult ==
    [iperfData |-> Null, wifiData |-> Null, status |-> "test was cancelled"]

(***************************************************************************)
(* State                                                                   *)
(***************************************************************************)
VARIABLES
    settings,          \* the argument of the run in flight
    cancelFlag,        \* server-globals' cancellation flag
    displayStates,     \* the module-level progress record
    pc,                \* where runSurveyTests is suspended
    preResults,        \* locals of runSurveyTests ...
    performIperfTest,
    noIperfTestReason,
    attempts,
    newIperfData,
    newWifiData,
    ssidName,
    wifiStrengths,
    wifiDataBefore,
    wifiDataAfter,
    completedTests,
    elapsed,           \* runSingleTest: timer periods since testStartTime
    result,            \* the value runSurveyTests resolved with
    sse,               \* last message before this step and those it published
    doneCount,         \* "done" messages published in this run
    firstMsg,          \* the first message published in this run
    calls,             \* calls started in this run, per operation
    cancelSeen,        \* a checkForCancel() of this run saw the flag set
    failure,           \* what raised in this run, other than cancellation
    progressInterval,  \* runSingleTest: the polling timer is set
    lastTestFailed,    \* the subprocess of the last sub-test settled failed
    inFlight,          \* calls of runSurveyTests not yet settled
    staleStop,         \* the flag was set when this run was started
    stopRequested,     \* a stop request was made since this run was started
    reported,          \* what the progress callback was last called with
    extractInput,      \* extractIperfData on its own: its arguments
    extracted,         \* extractIperfData on its own: what it returned
    toastHeader,       \* NewToast: its state ...
    toastStatus,
    taskRunning,
    progress,
    showProgress,
    eventSource,       \* NewToast: the EventSource is "open" or "closed"
    toastReady,        \* NewToast: toastIsReady() has been called
    stopFetches,       \* NewToast: calls of handleCancel awaiting fetch()
    doneTimers,        \* NewToast: pending timeouts set by a "done" message
    cancelTimers,      \* NewToast: pending timeouts set by handleCancel
    onCloseCalls,      \* NewToast: how many times onClose() was called
    activeTab,         \* TabPanel: its state
    settingsMenuOpen,  \* GlobalSettings: the settings menu is shown
    validationError,   \* TabPanel: validateIperfSettings(settings)
    editorSettings,    \* GlobalSettings: the settings SettingsEditor edits
    lastHandler        \* the handler of TabPanel / SettingsEditor run last

toastVars ==
    <<toastHeader, toastStatus, taskRunning, progress, showProgress,
      eventSource, toastReady, stopFetches, doneTimers, cancelTimers,
      onCloseCalls>>

panelVars ==
    <<activeTab, settingsMenuOpen, validationError, editorSettings,
      lastHandler>>

vars ==
    <<settings, cancelFlag, displayStates, pc, preResults, performIperfTest,
      noIperfTestReason, attempts, newIperfData, newWifiData, ssidName,
      wifiStrengths, wifiDataBefore, wifiDataAfter, completedTests, elapsed,
      result, sse, doneCount, firstMsg, calls, cancelSeen, failure,
      progressInterval, lastTestFailed, inFlight, staleStop, stopRequested,
      reported, extractInput, extracted, toastVars, panelVars>>

TestPcs == {"tcpDown", "tcpUp", "udpDown", "udpUp"}
DelayPcs == {"tcpDelay", "udpDelay"}
GetWifiPcs == {"getWifiBefore", "getWifiMiddle", "getWifiAfter"}
FinalPcs == {"returned", "raised"}

NoCalls ==
    [preflightSettings |-> 0, checkIperfServer |-> 0, scanWifi |-> 0,
     getWifi |-> 0, runSingleTest |-> 0]

\* The state a synchronous segment works on; `out` collects what it publishes.
Cur ==
    [pc |-> pc, displayStates |-> displayStates, preResults |-> preResults,
     performIperfTest |-> performIperfTest,
     noIperfTestReason |-> noIperfTestReason, attempts |-> attempts,
     newIperfData |-> newIperfData, newWifiData |-> newWifiData,
     ssidName |-> ssidName, wifiStrengths |-> wifiStrengths,
     wifiDataBefore |-> wifiDataBefore, wifiDataAfter |-> wifiDataAfter,
     completedTests |-> completedTests, elapsed |-> elapsed,
     result |-> result, calls |-> calls, cancelSeen |-> cancelSeen,
     failure |-> failure, progressInterval |-> progressInterval,
     lastTestFailed |-> lastTestFailed, reported |-> reported, out |-> <<>>]

IsDone(m) == m.type = "done"

Commit(st) ==
    /\ pc' = st.pc
    /\ displayStates' = st.displayStates
    /\ preResults' = st.preResults
    /\ performIperfTest' = st.performIperfTest
    /\ noIperfTestReason' = st.noIperfTestReason
    /\ attempts' = st.attempts
    /\ newIperfData' = st.newIperfData
    /\ newWifiData' = st.newWifiData
    /\ ssidName' = st.ssidName
    /\ wifiStrengths' = st.wifiStrengths
    /\ wifiDataBefore' = st.wifiDataBefore
    /\ wifiDataAfter' = st.wifiDataAfter
    /\ completedTests' = st.completedTests
    /\ elapsed' = st.elapsed
    /\ result' = st.result
    /\ calls' = st.calls
    /\ cancelSeen' = st.cancelSeen
    /\ failure' = st.failure
    /\ progressInterval' = st.progressInterval
    /\ lastTestFailed' = st.lastTestFailed
    /\ reported' = st.reported
    /\ inFlight' = IF st.pc \in FinalPcs THEN inFlight - 1 ELSE inFlight
    /\ sse' = IF st.out = <<>> THEN sse
              ELSE (IF sse = <<>> THEN <<>> ELSE <<sse[Len(sse)]>>) \o st.out
    /\ doneCount' = doneCount
                    + Cardinality({i \in DOMAIN st.out : IsDone(st.out[i])})
    /\ firstMsg' = IF firstMsg = Null /\ st.out # <<>>
                   THEN Some(st.out[1]) ELSE firstMsg
    /\ UNCHANGED <<settings, cancelFlag, staleStop, stopRequested,
                   extractInput, extracted, toastVars, panelVars>>

sendSSEMessage(st, message) == [st EXCEPT !.out = Append(@, message)]

\* sendSSEMessage(getUpdatedMessage())
Publish(st) == sendSSEMessage(st, getUpdatedMessage(st.displayStates))

\* TRUE iff checkForCancel() throws Error("cancelled").
checkForCancel == cancelFlag

\* Records what the flag was where checkForCancel() is called.
AtCheckpoint(st) == [st EXCEPT !.cancelSeen = @ \/ cancelFlag]

CallAdapter(st, operation, at) ==
    [st EXCEPT !.pc = at, !.calls[operation] = @ + 1]

\* The call of runSingleTest up to its await of execAsync: a callback is
\* always passed, so the polling timer is set.
StartSingleTest(st, at) ==
    [st EXCEPT !.pc = at, !.calls.runSingleTest = @ + 1, !.elapsed = 0,
               !.progressInterval = TRUE]

(***************************************************************************)
(* runSurveyTests, one operator per stretch of the code.  A stretch ends   *)
(* at an await (it sets pc), at the return or at the throw; the stretches  *)
(* are defined last first, as each one runs into the next.                 *)
(***************************************************************************)
\* Faulty variant: the TCP tests run whatever the probe of the server said.
tcpEnabled_IgnoresProbe(st) == settings.iperfTcpEnabled

tcpEnabled(st) == st.performIperfTest /\ settings.iperfTcpEnabled

udpEnabled(st) == st.performIperfTest /\ settings.iperfUdpEnabled

totalTests(st) ==
    (IF tcpEnabled(st) THEN 2 ELSE 0) + (IF udpEnabled(st) THEN 2 ELSE 0)

\* The <<totalTests, completedTests, percent>> at which the sum
\* baseProgress + testProgress, exactly a half more than an integer, comes
\* out just below that half in double precision: Math.round then gives the
\* integer below (0.29 * 50 is 14.499999999999998).
DoubleFallsShort == {<<2, 0, 29>>, <<2, 0, 57>>, <<4, 0, 58>>}

\* Faulty variant: the sum is truncated, not rounded.
RoundedProgress_Truncates(total, completed, percent) ==
    (completed * 100 + percent) \div total

\* Math.round(baseProgress + testProgress).  With progressPerTest =
\* 100 / totalTests the exact sum is (completed * 100 + percent) / total.
RoundedProgress(total, completed, percent) ==
    MathRound(completed * 100 + percent, total)
    - (IF <<total, completed, percent>> \in DoubleFallsShort THEN 1 ELSE 0)

\* Faulty variant: the callback forgets the tests already completed.
onProgress_NoBase(st, percent) ==
    Publish([st EXCEPT !.displayStates.progress =
                           MathRound(percent, totalTests(st)),
                       !.reported = Some(percent)])

\* The callback createProgressCallback() makes.
onProgress(st, percent) ==
    Publish([st EXCEPT !.displayStates.progress =
                           RoundedProgress(totalTests(st), st.completedTests,
                                           percent),
                       !.reported = Some(percent)])

\* return { iperfData: newIperfData!, wifiData: newWifiData!, status: "" }
ReturnValues(st) ==
    [st EXCEPT !.pc = "returned",
               !.result = Some([iperfData |-> Some(st.newIperfData),
                                wifiData |-> st.newWifiData,
                                status |-> ""])]

\* The head of the loop body, up to the first getWifi().
BeginAttempt(st) ==
    LET newHeader == IF IncludesRedacted(st.ssidName)
                     THEN "Measuring Wi-Fi"
                     ELSE "Measuring Wi-Fi (" \o st.ssidName \o ")"
    IN  CallAdapter(
            [st EXCEPT !.attempts = @ + 1,
                       !.wifiStrengths = <<>>,
                       !.wifiDataBefore = Null,
                       !.wifiDataAfter = Null,
                       !.displayStates.header = newHeader],
            "getWifi", "getWifiBefore")

\* Faulty variant: the loop allows one attempt more than maxRetries.
WhileLoop_ExtraAttempt(st) ==
    IF st.attempts < maxRetries + 1 THEN BeginAttempt(st) ELSE ReturnValues(st)

\* while (attempts < maxRetries) { ... } return ...
WhileLoop(st) ==
    IF st.attempts < maxRetries THEN BeginAttempt(st) ELSE ReturnValues(st)

\* Faulty variant: the catch treats a cancellation like any other error.
CatchAttempt_SwallowsCancel(st, message) == WhileLoop(st)

\* The catch of the loop body.
CatchAttempt(st, message) ==
    IF message = "cancelled"
    THEN [st EXCEPT !.pc = "returned", !.result = Some(CancelledResult)]
    ELSE WhileLoop(st)

\* The catch of the whole survey: report, then rethrow.
CatchSurvey(st, what) ==
    [sendSSEMessage(st, ErrorMessage) EXCEPT !.pc = "raised",
                                             !.failure = Some(what)]

\* The third sample, the final message, validation and the result.
SamplingAfter(st, wifiDataAfterEntry) ==
    LET s1 == [st EXCEPT !.wifiDataAfter = Some(wifiDataAfterEntry),
                         !.wifiStrengths = Append(@, wifiDataAfterEntry.signalStrength)]
        s2 == AtCheckpoint([s1 EXCEPT !.displayStates.strength =
                                ToString(arrayAverage(s1.wifiStrengths))])
        s3 == Publish([s2 EXCEPT !.displayStates.type = "done",
                                 !.displayStates.header = "Measurement complete"])
        strength == parseInt(s3.displayStates.strength)
    IN  IF checkForCancel
        THEN CatchAttempt(s2, "cancelled")
        ELSE IF ~validateWifiDataConsistency(The(s3.wifiDataBefore),
                                             The(s3.wifiDataAfter))
        THEN CatchAttempt([s3 EXCEPT !.failure = Some("consistency")],
                          "Wifi configuration changed between scans!")
        ELSE WhileLoop([s3 EXCEPT !.newWifiData =
                 Some([The(s3.wifiDataBefore) EXCEPT
                          !.signalStrength = strength,
                          !.rssi = percentageToRssi(strength)])])

\* Faulty variant: no checkForCancel() once the UDP tests are over.
AfterUdpPhase_NoCheckpoint(st) ==
    CallAdapter(Publish([st EXCEPT !.displayStates.progress = 100]),
                "getWifi", "getWifiAfter")

\* Faulty variant: progress is not set to 100 once the tests are over.
AfterUdpPhase_NoProgress100(st) ==
    LET s1 == AtCheckpoint(st)
    IN  IF checkForCancel
        THEN CatchAttempt(s1, "cancelled")
        ELSE CallAdapter(Publish(s1), "getWifi", "getWifiAfter")

\* After the UDP tests: progress 100, checkpoint, message, third getWifi().
AfterUdpPhase(st) ==
    LET s1 == AtCheckpoint([st EXCEPT !.displayStates.progress = 100])
    IN  IF checkForCancel
        THEN CatchAttempt(s1, "cancelled")
        ELSE CallAdapter(Publish(s1), "getWifi", "getWifiAfter")

\* if (udpEnabled) ... else if (displayStates.udpEnabled) ...
UdpPhase(st) ==
    IF udpEnabled(st)
    THEN StartSingleTest([st EXCEPT !.displayStates.udp = Text("Testing...")],
                         "udpDown")
    ELSE IF st.displayStates.udpEnabled
    THEN [st EXCEPT !.pc = "udpDelay"]
    ELSE AfterUdpPhase(st)

\* The second sample, its checkpoint and message, then the UDP tests.
SamplingMiddle(st, wifiDataMiddleEntry) ==
    LET s1 == [st EXCEPT !.wifiStrengths = Append(@, wifiDataMiddleEntry.signalStrength)]
        s2 == AtCheckpoint([s1 EXCEPT !.displayStates.strength =
                                ToString(arrayAverage(s1.wifiStrengths))])
    IN  IF checkForCancel
        THEN CatchAttempt(s2, "cancelled")
        ELSE UdpPhase(Publish(s2))

\* After the TCP tests: checkpoint, message, second getWifi().
AfterTcpPhase(st) ==
    LET s1 == AtCheckpoint(st)
    IN  IF checkForCancel
        THEN CatchAttempt(s1, "cancelled")
        ELSE CallAdapter(Publish(s1), "getWifi", "getWifiMiddle")

\* Faulty variant: the TCP tests are left out.
TcpPhase_Skipped(st) == AfterTcpPhase(st)

\* if (tcpEnabled) ... else if (displayStates.tcpEnabled) ...
TcpPhase(st) ==
    IF tcpEnabled(st)
    THEN StartSingleTest([st EXCEPT !.displayStates.tcp = Text("Testing...")],
                         "tcpDown")
    ELSE IF st.displayStates.tcpEnabled
    THEN [st EXCEPT !.pc = "tcpDelay"]
    ELSE AfterTcpPhase(st)

\* Faulty variant: no checkForCancel() after the first sample.
SamplingBefore_NoCheckpoint(st, wifiDataBeforeEntry) ==
    LET s1 == [st EXCEPT !.wifiDataBefore = Some(wifiDataBeforeEntry),
                         !.wifiStrengths = Append(@, wifiDataBeforeEntry.signalStrength)]
        s2 == [s1 EXCEPT !.displayStates.strength =
                   ToString(arrayAverage(s1.wifiStrengths))]
    IN  TcpPhase([Publish(s2) EXCEPT !.completedTests = 0])

\* The first sample, its checkpoint and message, then the TCP tests.
SamplingBefore(st, wifiDataBeforeEntry) ==
    LET s1 == [st EXCEPT !.wifiDataBefore = Some(wifiDataBeforeEntry),
                         !.wifiStrengths = Append(@, wifiDataBeforeEntry.signalStrength)]
        s2 == AtCheckpoint([s1 EXCEPT !.displayStates.strength =
                                ToString(arrayAverage(s1.wifiStrengths))])
    IN  IF checkForCancel
        THEN CatchAttempt(s2, "cancelled")
        ELSE TcpPhase([Publish(s2) EXCEPT !.completedTests = 0])

\* Faulty variant: the flag is looked at when scanWifi() has returned.
AfterScanWifi_Checkpoint(st, scan) ==
    IF checkForCancel
    THEN CatchSurvey(AtCheckpoint(st), "cancelled")
    ELSE IF scan = Null
    THEN CatchSurvey(st, "scanWifi")
    ELSE WhileLoop([st EXCEPT !.ssidName = The(scan)])

\* scanWifi() has returned: the name of the current SSID, then the loop.
\* With no entry flagged current, thisSSID[0].ssid throws a TypeError.
AfterScanWifi(st, scan) ==
    IF scan = Null
    THEN CatchSurvey(st, "scanWifi")
    ELSE WhileLoop([st EXCEPT !.ssidName = The(scan)])

\* Faulty variant: the survey begins without publishing the initial message.
BeginSurvey_NoInitialMessage(st) ==
    LET s1 == [st EXCEPT !.attempts = 0,
                         !.newIperfData = getDefaultIperfResults,
                         !.newWifiData = Null,
                         !.displayStates =
                             Spread(Spread(@, initialStates),
                                    [tcpEnabled |-> tcpEnabled(st),
                                     udpEnabled |-> udpEnabled(st)])]
    IN  CallAdapter([s1 EXCEPT !.displayStates.header = "Measurement in progress..."],
                    "scanWifi", "scanWifi")

\* try { ...: the reset of displayStates, the initial message, scanWifi().
BeginSurvey(st) ==
    LET s1 == [st EXCEPT !.attempts = 0,
                         !.newIperfData = getDefaultIperfResults,
                         !.newWifiData = Null,
                         !.displayStates =
                             Spread(Spread(@, initialStates),
                                    [tcpEnabled |-> tcpEnabled(st),
                                     udpEnabled |-> udpEnabled(st)])]
        s2 == Publish(s1)
    IN  CallAdapter([s2 EXCEPT !.displayStates.header = "Measurement in progress..."],
                    "scanWifi", "scanWifi")

\* checkIperfServer() has returned.
AfterCheckIperfServer(st, resp) ==
    IF resp.reason # ""
    THEN BeginSurvey([st EXCEPT !.performIperfTest = FALSE,
                                !.noIperfTestReason = resp.reason])
    ELSE BeginSurvey(st)

\* Faulty variant: the reason preflightSettings() gives is never looked at.
PreflightBlocks_Never(reason) == FALSE

\* if (preResults.reason != "")
PreflightBlocks(reason) == reason # ""

\* preflightSettings() has returned.
AfterPreflightSettings(st, pre) ==
    LET s1 == [st EXCEPT !.preResults = Some(pre)]
    IN  IF PreflightBlocks(pre.reason)
        THEN [s1 EXCEPT !.pc = "returned",
                        !.result = Some([iperfData |-> Null, wifiData |-> Null,
                                         status |-> pre.reason])]
        ELSE IF settings.iperfServerAdrs = "localhost"
        THEN BeginSurvey([s1 EXCEPT !.performIperfTest = FALSE,
                                    !.noIperfTestReason = "Not performed"])
        ELSE CallAdapter(s1, "checkIperfServer", "checkIperf")

\* Faulty variant: the finally reports 100 and leaves the timer running.
runSingleTestFinally_KeepsTimer(st) ==
    IF st.progressInterval THEN onProgress(st, 100) ELSE st

\* finally { if (progressInterval) { clearInterval(progressInterval);
\*                                   if (onProgress) onProgress(100); } }
runSingleTestFinally(st) ==
    IF st.progressInterval
    THEN onProgress([st EXCEPT !.progressInterval = FALSE], 100)
    ELSE st

(***************************************************************************)
(* runSingleTest has returned: its finally reports 100 through the         *)
(* callback, then the caller stores the result and goes on.                *)
(***************************************************************************)
\* Faulty variant: the flag is looked at between download and upload.
AfterTcpDownload_Checkpoint(st, tcpDownload) ==
    LET s1 == runSingleTestFinally(st)
        s2 == AtCheckpoint(
                  [s1 EXCEPT !.newIperfData.tcpDownload = tcpDownload,
                             !.completedTests = @ + 1,
                             !.displayStates.tcp = HalfMbps(tcpDownload.bitsPerSecond)])
    IN  IF checkForCancel
        THEN CatchAttempt(s2, "cancelled")
        ELSE StartSingleTest(Publish(s2), "tcpUp")

AfterTcpDownload(st, tcpDownload) ==
    LET s1 == runSingleTestFinally(st)
        s2 == [s1 EXCEPT !.newIperfData.tcpDownload = tcpDownload,
                         !.completedTests = @ + 1,
                         !.displayStates.tcp = HalfMbps(tcpDownload.bitsPerSecond)]
    IN  StartSingleTest(Publish(s2), "tcpUp")

AfterTcpUpload(st, tcpUpload) ==
    LET s1 == runSingleTestFinally(st)
    IN  AfterTcpPhase(
            [s1 EXCEPT !.newIperfData.tcpUpload = tcpUpload,
                       !.completedTests = @ + 1,
                       !.displayStates.tcp =
                           FullMbps(s1.newIperfData.tcpDownload.bitsPerSecond,
                                    tcpUpload.bitsPerSecond)])

AfterUdpDownload(st, udpDownload) ==
    LET s1 == runSingleTestFinally(st)
        s2 == [s1 EXCEPT !.newIperfData.udpDownload = udpDownload,
                         !.completedTests = @ + 1,
                         !.displayStates.udp = HalfMbps(udpDownload.bitsPerSecond)]
    IN  StartSingleTest(Publish(s2), "udpUp")

AfterUdpUpload(st, udpUpload) ==
    LET s1 == runSingleTestFinally(st)
    IN  AfterUdpPhase(
            [s1 EXCEPT !.newIperfData.udpUpload = udpUpload,
                       !.completedTests = @ + 1,
                       !.displayStates.udp =
                           FullMbps(s1.newIperfData.udpDownload.bitsPerSecond,
                                    udpUpload.bitsPerSecond)])

\* execAsync() has settled with `outcome`: runSingleTest runs to its end and
\* the stretch of runSurveyTests that awaited it goes on.
SingleTestSettles(st, outcome) ==
    LET isUdp == st.pc \in {"udpDown", "udpUp"}
        s1 == [st EXCEPT !.lastTestFailed = SubprocessFailed(outcome)]
        value == runSingleTestResult(outcome, isUdp)
    IN  IF runSingleTestRejects(outcome)
        THEN CatchAttempt([runSingleTestFinally(s1) EXCEPT
                               !.failure = Some("runSingleTest")],
                          "iperf3 test failed")
        ELSE CASE st.pc = "tcpDown" -> AfterTcpDownload(s1, value)
               [] st.pc = "tcpUp" -> AfterTcpUpload(s1, value)
               [] st.pc = "udpDown" -> AfterUdpDownload(s1, value)
               [] st.pc = "udpUp" -> AfterUdpUpload(s1, value)

\* await delay(500) has elapsed (the branch of a protocol shown as enabled
\* whose tests do not run).
AfterDelay(st) ==
    IF st.pc = "tcpDelay"
    THEN AfterTcpPhase([st EXCEPT !.displayStates.tcp = Text(st.noIperfTestReason)])
    ELSE AfterUdpPhase([st EXCEPT !.displayStates.udp = Text(st.noIperfTestReason)])

\* Faulty variant: the timer callback looks at the flag and gives the run up.
ProgressTick_ChecksCancel(st, elapsedMs) ==
    IF checkForCancel
    THEN CatchAttempt(AtCheckpoint(st), "cancelled")
    ELSE onProgress([st EXCEPT !.elapsed = elapsedMs \div ProgressIntervalMs],
                    SimulatedPercent(elapsedMs, settings.testDuration))

\* The setInterval callback of runSingleTest, run `elapsedMs` after
\* testStartTime.
ProgressTick(st, elapsedMs) ==
    onProgress([st EXCEPT !.elapsed = elapsedMs \div ProgressIntervalMs],
               SimulatedPercent(elapsedMs, settings.testDuration))

(***************************************************************************)
(* Actions                                                                 *)
(***************************************************************************)
InitRun ==
    /\ settings = [iperfServerAdrs |-> "localhost", testDuration |-> 1,
                   iperfTcpEnabled |-> FALSE, iperfUdpEnabled |-> FALSE]
    /\ cancelFlag = FALSE
    /\ displayStates = displayStatesAtLoad
    /\ pc = "idle"
    /\ preResults = Null
    /\ performIperfTest = TRUE
    /\ noIperfTestReason = ""
    /\ attempts = 0
    /\ newIperfData = getDefaultIperfResults
    /\ newWifiData = Null
    /\ ssidName = ""
    /\ wifiStrengths = <<>>
    /\ wifiDataBefore = Null
    /\ wifiDataAfter = Null
    /\ completedTests = 0
    /\ elapsed = 0
    /\ result = Null
    /\ sse = <<>>
    /\ doneCount = 0
    /\ firstMsg = Null
    /\ calls = NoCalls
    /\ cancelSeen = FALSE
    /\ failure = Null
    /\ progressInterval = FALSE
    /\ lastTestFailed = FALSE
    /\ inFlight = 0
    /\ staleStop = FALSE
    /\ stopRequested = FALSE
    /\ reported = Null

\* extractIperfData has not been called on its own.
ExtractIdle ==
    /\ extractInput = [result |-> [end |-> Null, error |-> Null],
                       isUdp |-> FALSE]
    /\ extracted = Null

\* NewToast when it is mounted: the initial values of its useState calls,
\* the EventSource its effect opens, nothing pending.
ToastMounted ==
    /\ toastHeader = ""
    /\ toastStatus = ""
    /\ taskRunning = TRUE
    /\ progress = 0
    /\ showProgress = FALSE
    /\ eventSource = "open"
    /\ toastReady = FALSE
    /\ stopFetches = 0
    /\ doneTimers = 0
    /\ cancelTimers = 0
    /\ onCloseCalls = 0

\* TabPanel when it is mounted, with the settings the provider holds.
PanelAtLoad(history, error, menuOpen) ==
    /\ activeTab = "tab1"
    /\ settingsMenuOpen = menuOpen
    /\ validationError = error
    /\ editorSettings = [iperfTcpEnabled |-> FALSE,
                         iperfUdpEnabled |-> FALSE,
                         iperfServerAdrs |-> "localhost",
                         iperfServerHistory |-> history]
    /\ lastHandler = ""

Init ==
    /\ InitRun
    /\ ExtractIdle
    /\ ToastMounted
    /\ PanelAtLoad(<<>>, "", FALSE)

\* Faulty variant: a start request is served while a run is in flight.
CanStart_Always == TRUE

\* A start request is served only when no run is in flight.
CanStart == pc \in {"idle"} \cup FinalPcs

\* Faulty variant: a start request leaves the flag as it finds it.
FlagAtStart_Kept == cancelFlag

\* The value a start request gives the flag.
FlagAtStart == FALSE

\* A start request: the flag is reset and runSurveyTests(settings) is called;
\* it runs up to its await of preflightSettings().
StartTask ==
    /\ CanStart
    /\ settings' \in Settings
    /\ cancelFlag' = FlagAtStart
    /\ pc' = "preflight"
    /\ calls' = [NoCalls EXCEPT !.preflightSettings = 1]
    /\ preResults' = Null
    /\ performIperfTest' = TRUE
    /\ noIperfTestReason' = ""
    /\ attempts' = 0
    /\ newIperfData' = getDefaultIperfResults
    /\ newWifiData' = Null
    /\ ssidName' = ""
    /\ wifiStrengths' = <<>>
    /\ wifiDataBefore' = Null
    /\ wifiDataAfter' = Null
    /\ completedTests' = 0
    /\ elapsed' = 0
    /\ result' = Null
    /\ sse' = <<>>
    /\ doneCount' = 0
    /\ firstMsg' = Null
    /\ cancelSeen' = FALSE
    /\ failure' = Null
    /\ progressInterval' = FALSE
    /\ lastTestFailed' = FALSE
    /\ inFlight' = inFlight + 1
    /\ staleStop' = cancelFlag
    /\ stopRequested' = FALSE
    /\ reported' = Null
    /\ UNCHANGED <<displayStates, extractInput, extracted, toastVars,
                   panelVars>>

\* A stop request sets the flag; it preempts nothing.
StopTask ==
    /\ ~cancelFlag
    /\ cancelFlag' = TRUE
    /\ stopRequested' = TRUE
    /\ UNCHANGED <<settings, displayStates, pc, preResults, performIperfTest,
                   noIperfTestReason, attempts, newIperfData, newWifiData,
                   ssidName, wifiStrengths, wifiDataBefore, wifiDataAfter,
                   completedTests, elapsed, result, sse, doneCount, firstMsg,
                   calls, cancelSeen, failure, progressInterval,
                   lastTestFailed, inFlight, staleStop, reported,
                   extractInput, extracted, toastVars, panelVars>>

\* A call awaited outside the try block rejects: runSurveyTests rejects.
Rejects(what) ==
    Commit([Cur EXCEPT !.pc = "raised", !.failure = Some(what)])

PreflightSettingsReturns ==
    /\ pc = "preflight"
    /\ \E reason \in Reasons :
           Commit(AfterPreflightSettings(Cur, [reason |-> reason]))

PreflightSettingsThrows ==
    /\ pc = "preflight"
    /\ Rejects("preflightSettings")

CheckIperfServerReturns ==
    /\ pc = "checkIperf"
    /\ \E reason \in Reasons :
           Commit(AfterCheckIperfServer(Cur, [reason |-> reason]))

CheckIperfServerThrows ==
    /\ pc = "checkIperf"
    /\ Rejects("checkIperfServer")

ScanWifiReturns ==
    /\ pc = "scanWifi"
    /\ \E scan \in ScanResults : Commit(AfterScanWifi(Cur, scan))

ScanWifiThrows ==
    /\ pc = "scanWifi"
    /\ Commit(CatchSurvey(Cur, "scanWifi"))

GetWifiBeforeReturns ==
    /\ pc = "getWifiBefore"
    /\ \E entry \in SameNetworkEntries : Commit(SamplingBefore(Cur, entry))

GetWifiMiddleReturns ==
    /\ pc = "getWifiMiddle"
    /\ \E entry \in SameNetworkEntries : Commit(SamplingMiddle(Cur, entry))

GetWifiAfterReturns ==
    /\ pc = "getWifiAfter"
    /\ \E entry \in WifiEntries : Commit(SamplingAfter(Cur, entry))

\* getWifi() rejects inside the loop body: its catch takes it.
GetWifiThrows ==
    /\ pc \in GetWifiPcs
    /\ Commit(CatchAttempt([Cur EXCEPT !.failure = Some("getWifi")],
                           "getWifi failed"))

\* A timer fires: the progress poll of the sub-test in flight, or the delay.
TimerFires ==
    /\ progressInterval \/ pc \in DelayPcs
    /\ IF pc \in DelayPcs
       THEN Commit(AfterDelay(Cur))
       ELSE \E periods \in (elapsed + 1) .. MaxElapsed, late \in Lateness :
                Commit(ProgressTick(Cur, periods * ProgressIntervalMs + late))

TcpDownloadReturns ==
    /\ pc = "tcpDown"
    /\ \E outcome \in ExecOutcomes : Commit(SingleTestSettles(Cur, outcome))

TcpUploadReturns ==
    /\ pc = "tcpUp"
    /\ \E outcome \in ExecOutcomes : Commit(SingleTestSettles(Cur, outcome))

UdpDownloadReturns ==
    /\ pc = "udpDown"
    /\ \E outcome \in ExecOutcomes : Commit(SingleTestSettles(Cur, outcome))

UdpUploadReturns ==
    /\ pc = "udpUp"
    /\ \E outcome \in ExecOutcomes : Commit(SingleTestSettles(Cur, outcome))

Next ==
    \/ StartTask
    \/ StopTask
    \/ PreflightSettingsReturns
    \/ PreflightSettingsThrows
    \/ CheckIperfServerReturns
    \/ CheckIperfServerThrows
    \/ ScanWifiReturns
    \/ ScanWifiThrows
    \/ GetWifiBeforeReturns
    \/ GetWifiMiddleReturns
    \/ GetWifiAfterReturns
    \/ GetWifiThrows
    \/ TimerFires
    \/ TcpDownloadReturns
    \/ TcpUploadReturns
    \/ UdpDownloadReturns
    \/ UdpUploadReturns

Spec == Init /\ [][Next]_vars

(***************************************************************************)
(* extractIperfData on its own: one call on any report of the shapes       *)
(* below, for either protocol.                                             *)
(***************************************************************************)
\* end.sum_received: absent, or present with or without a throughput.
ReceivedSections ==
    {Null} \cup {Some([bits_per_second |-> b]) : b \in {Null, Some(0), Some(500)}}

\* end.sum_sent: absent, or present with or without a retransmit count.
SentSections ==
    {Null} \cup {Some([retransmits |-> r]) : r \in {Null, Some(0), Some(12)}}

\* end.sum: absent, or present with any of its fields missing.
SumSections ==
    {Null} \cup
    {Some(Sum(b, j, l, k, r)) : b \in {Null, Some(0), Some(51)},
                                j \in {Null, Some(2)},
                                l \in {Null, Some(0)},
                                k \in {Null, Some(90)},
                                r \in {Null, Some(3)}}

\* result.error: iperf3's own error text, or none.
ErrorTexts == {Null, Some("unable to connect to server")}

Reports ==
    {[end |-> Null, error |-> e] : e \in ErrorTexts} \cup
    {[end |-> Some([sum_received |-> a, sum_sent |-> b, sum |-> c]),
      error |-> e] :
        a \in ReceivedSections, b \in SentSections, c \in SumSections,
        e \in ErrorTexts}

ExtractInputs == [result : Reports, isUdp : BOOLEAN]

runVars ==
    <<settings, cancelFlag, displayStates, pc, preResults, performIperfTest,
      noIperfTestReason, attempts, newIperfData, newWifiData, ssidName,
      wifiStrengths, wifiDataBefore, wifiDataAfter, completedTests, elapsed,
      result, sse, doneCount, firstMsg, calls, cancelSeen, failure,
      progressInterval, lastTestFailed, inFlight, staleStop, stopRequested,
      reported>>

ExtractInit ==
    /\ InitRun
    /\ extractInput \in ExtractInputs
    /\ extracted = Null
    /\ ToastMounted
    /\ PanelAtLoad(<<>>, "", FALSE)

\* const extracted = extractIperfData(result, isUdp)
ExtractCall ==
    /\ extracted = Null
    /\ extracted' = Some(extractIperfData(extractInput.result,
                                          extractInput.isUdp))
    /\ UNCHANGED <<runVars, extractInput, toastVars, panelVars>>

ExtractNext == ExtractCall

ExtractSpec == ExtractInit /\ [][ExtractNext]_vars

(***************************************************************************)
(* NewToast (src/components/NewToast.tsx, held in src/unnamed/part_002):   *)
(* the toast that shows the progress of a run.  Its actions are the tasks  *)
(* of the browser: a message of the event stream, a click on Cancel, the   *)
(* fetch of handleCancel settling, a timeout firing.                       *)
(***************************************************************************)
\* The messages the event stream may deliver.
ToastMessages ==
    {[type |-> "ready", header |-> "", status |-> "", tcpEnabled |-> FALSE,
      udpEnabled |-> FALSE, progress |-> Null]}
    \cup
    [type : {"update"}, header : {"Measurement beginning"},
     status : {"Signal strength: -"}, tcpEnabled : BOOLEAN,
     udpEnabled : {FALSE}, progress : {Null, Some(0), Some(50)}]
    \cup
    {[type |-> "done", header |-> "Measurement complete",
      status |-> "Signal strength: 40%", tcpEnabled |-> TRUE,
      udpEnabled |-> FALSE, progress |-> Some(100)],
     [type |-> "done", header |-> "Error",
      status |-> "Error taking measurements", tcpEnabled |-> FALSE,
      udpEnabled |-> FALSE, progress |-> Null]}

notToastVars == <<runVars, extractInput, extracted, panelVars>>

\* eventSource.onmessage
onmessage(data) ==
    IF data.type = "ready"
    THEN /\ toastReady' = TRUE
         /\ UNCHANGED <<toastHeader, toastStatus, taskRunning, progress,
                        showProgress, eventSource, stopFetches, doneTimers,
                        cancelTimers, onCloseCalls>>
    ELSE IF data.type = "update"
    THEN /\ toastHeader' = data.header
         /\ toastStatus' = data.status
         /\ IF data.progress # Null /\ (data.tcpEnabled \/ data.udpEnabled)
            THEN progress' = The(data.progress) /\ showProgress' = TRUE
            ELSE UNCHANGED <<progress, showProgress>>
         /\ UNCHANGED <<taskRunning, eventSource, toastReady, stopFetches,
                        doneTimers, cancelTimers, onCloseCalls>>
    ELSE /\ data.type = "done"
         /\ toastHeader' = data.header
         /\ toastStatus' = data.status
         /\ progress' = 100
         /\ eventSource' = "closed"
         /\ doneTimers' = doneTimers + 1
         /\ UNCHANGED <<taskRunning, showProgress, toastReady, stopFetches,
                        cancelTimers, onCloseCalls>>

\* A message of the stream is dispatched; a closed EventSource gets none.
MessageArrives ==
    /\ eventSource = "open"
    /\ \E data \in ToastMessages : onmessage(data)
    /\ UNCHANGED notToastVars

\* eventSource.onerror
StreamError ==
    /\ eventSource = "open"
    /\ eventSource' = "closed"
    /\ UNCHANGED <<toastHeader, toastStatus, taskRunning, progress,
                   showProgress, toastReady, stopFetches, doneTimers,
                   cancelTimers, onCloseCalls>>
    /\ UNCHANGED notToastVars

\* A click on Cancel, which is rendered while taskRunning: handleCancel up
\* to its await of fetch().
ClickCancel ==
    /\ taskRunning
    /\ stopFetches + cancelTimers < MaxClicks
    /\ stopFetches' = stopFetches + 1
    /\ UNCHANGED <<toastHeader, toastStatus, taskRunning, progress,
                   showProgress, eventSource, toastReady, doneTimers,
                   cancelTimers, onCloseCalls>>
    /\ UNCHANGED notToastVars

\* fetch() has resolved: the rest of handleCancel.
StopFetchResolves ==
    /\ stopFetches > 0
    /\ stopFetches' = stopFetches - 1
    /\ toastStatus' = "Task Canceled"
    /\ toastHeader' = "Canceled"
    /\ taskRunning' = FALSE
    /\ cancelTimers' = cancelTimers + 1
    /\ UNCHANGED <<progress, showProgress, eventSource, toastReady,
                   doneTimers, onCloseCalls>>
    /\ UNCHANGED notToastVars

\* fetch() has rejected: handleCancel ends there.
StopFetchRejects ==
    /\ stopFetches > 0
    /\ stopFetches' = stopFetches - 1
    /\ UNCHANGED <<toastHeader, toastStatus, taskRunning, progress,
                   showProgress, eventSource, toastReady, doneTimers,
                   cancelTimers, onCloseCalls>>
    /\ UNCHANGED notToastVars

\* The timeout set by a "done" message fires.
DoneTimerFires ==
    /\ doneTimers > 0
    /\ doneTimers' = doneTimers - 1
    /\ taskRunning' = FALSE
    /\ onCloseCalls' = onCloseCalls + 1
    /\ UNCHANGED <<toastHeader, toastStatus, progress, showProgress,
                   eventSource, toastReady, stopFetches, cancelTimers>>
    /\ UNCHANGED notToastVars

\* The timeout set by handleCancel fires.
CancelTimerFires ==
    /\ cancelTimers > 0
    /\ cancelTimers' = cancelTimers - 1
    /\ onCloseCalls' = onCloseCalls + 1
    /\ UNCHANGED <<toastHeader, toastStatus, taskRunning, progress,
                   showProgress, eventSource, toastReady, stopFetches,
                   doneTimers>>
    /\ UNCHANGED notToastVars

ToastInit ==
    /\ InitRun
    /\ ExtractIdle
    /\ ToastMounted
    /\ PanelAtLoad(<<>>, "", FALSE)

ToastNext ==
    \/ MessageArrives
    \/ StreamError
    \/ ClickCancel
    \/ StopFetchResolves
    \/ StopFetchRejects
    \/ DoneTimerFires
    \/ CancelTimerFires

ToastSpec == ToastInit /\ [][ToastNext]_vars

(***************************************************************************)
(* TabPanel (src/src/components/TabPanel.tsx) and the SettingsEditor it    *)
(* shows in the settings menu (src/components/SettingsEditor.tsx, held in  *)
(* src/unnamed/part_003).  Each action is one event handler followed by    *)
(* the render its state update causes.                                     *)
(***************************************************************************)
Tabs == {"tab1", "tab2", "tab3"}

\* What validateIperfSettings(settings) may return: "" or an error text.
ValidationErrors == {"", "Enter an iperf3 server address"}

\* String.prototype.trim() on the addresses the model types.
Trim(str) ==
    CASE str = " s11 " -> "s11"
      [] str = "  " -> ""
      [] OTHER -> str

\* What handleServerChange receives from the input field.
TypedAddresses == {"", "  ", "localhost", " s11 ", "s12"}

\* A history ten earlier calls of handleServerBlur have filled.
FullHistory ==
    <<"s1", "s2", "s3", "s4", "s5", "s6", "s7", "s8", "s9", "s10">>

\* The histories the settings hold when the panel is mounted.
InitialHistories == {<<>>, <<"s1">>, FullHistory}

\* Array.prototype.includes
Includes(arr, x) == \E i \in DOMAIN arr : arr[i] = x

\* Array.prototype.slice(0, n)
SliceFromStart(arr, n) == SubSeq(arr, 1, IF Len(arr) < n THEN Len(arr) ELSE n)

\* updateSettings(partial): the settings with the fields of partial.
updateSettings(current, partial) == Spread(current, partial)

hasValidationError == validationError # ""

\* Faulty variant: "localhost" is kept when a test is enabled.
handleBandwidthCheckboxChange_KeepsLocalhost(current, type, checked) ==
    LET newTcpEnabled == IF type = "tcp" THEN checked ELSE current.iperfTcpEnabled
        newUdpEnabled == IF type = "udp" THEN checked ELSE current.iperfUdpEnabled
        anyEnabled == newTcpEnabled \/ newUdpEnabled
    IN  IF ~anyEnabled
        THEN updateSettings(current, [iperfTcpEnabled |-> newTcpEnabled,
                                      iperfUdpEnabled |-> newUdpEnabled,
                                      iperfServerAdrs |-> "localhost"])
        ELSE updateSettings(current, [iperfTcpEnabled |-> newTcpEnabled,
                                      iperfUdpEnabled |-> newUdpEnabled])

\* The settings after handleBandwidthCheckboxChange(type, checked).
handleBandwidthCheckboxChange(current, type, checked) ==
    LET newTcpEnabled == IF type = "tcp" THEN checked ELSE current.iperfTcpEnabled
        newUdpEnabled == IF type = "udp" THEN checked ELSE current.iperfUdpEnabled
        anyEnabled == newTcpEnabled \/ newUdpEnabled
    IN  IF anyEnabled /\ current.iperfServerAdrs = "localhost"
        THEN updateSettings(current, [iperfTcpEnabled |-> newTcpEnabled,
                                      iperfUdpEnabled |-> newUdpEnabled,
                                      iperfServerAdrs |-> ""])
        ELSE IF ~anyEnabled
        THEN updateSettings(current, [iperfTcpEnabled |-> newTcpEnabled,
                                      iperfUdpEnabled |-> newUdpEnabled,
                                      iperfServerAdrs |-> "localhost"])
        ELSE updateSettings(current, [iperfTcpEnabled |-> newTcpEnabled,
                                      iperfUdpEnabled |-> newUdpEnabled])

\* Faulty variant: the new history is not cut to its limit.
handleServerBlur_KeepsAll(current) ==
    LET server == Trim(current.iperfServerAdrs)
    IN  IF /\ server # ""
           /\ server # "localhost"
           /\ ~Includes(current.iperfServerHistory, server)
        THEN updateSettings(current,
                 [iperfServerHistory |->
                      <<server>> \o current.iperfServerHistory])
        ELSE current

\* The settings after handleServerBlur().
handleServerBlur(current) ==
    LET server == Trim(current.iperfServerAdrs)
    IN  IF /\ server # ""
           /\ server # "localhost"
           /\ ~Includes(current.iperfServerHistory, server)
        THEN updateSettings(current,
                 [iperfServerHistory |->
                      SliceFromStart(<<server>> \o current.iperfServerHistory,
                                     HistoryLimit)])
        ELSE current

\* Faulty variant: the tab is changed whatever the validation says.
TabAfterChange_Unchecked(newTab) == newTab

\* handleTabChange(newTab): the active tab it leaves.
TabAfterChange(newTab) == IF hasValidationError THEN activeTab ELSE newTab

notPanelVars == <<runVars, extractInput, extracted, toastVars>>

\* The handler `name` of SettingsEditor has left the settings `new`; when
\* they have changed, TabPanel renders again and validates them.
EditorUpdate(name, new) ==
    /\ settingsMenuOpen
    /\ editorSettings' = new
    /\ lastHandler' = name
    /\ IF new = editorSettings
       THEN validationError' = validationError
       ELSE validationError' \in ValidationErrors
    /\ UNCHANGED <<activeTab, settingsMenuOpen>>
    /\ UNCHANGED notPanelVars

\* Tabs.Root's onValueChange
HandleTabChange ==
    /\ \E newTab \in Tabs :
           /\ activeTab' = TabAfterChange(newTab)
           /\ settingsMenuOpen' = (IF hasValidationError THEN TRUE
                                   ELSE settingsMenuOpen)
    /\ lastHandler' = "handleTabChange"
    /\ UNCHANGED <<validationError, editorSettings>>
    /\ UNCHANGED notPanelVars

\* A click on the hamburger button.
ToggleSettingsMenu ==
    /\ settingsMenuOpen' = (IF settingsMenuOpen /\ hasValidationError
                            THEN settingsMenuOpen
                            ELSE ~settingsMenuOpen)
    /\ lastHandler' = "toggleSettingsMenu"
    /\ UNCHANGED <<activeTab, validationError, editorSettings>>
    /\ UNCHANGED notPanelVars

\* A mousedown outside the menu; the listener is there while it is open.
HandleClickOutside ==
    /\ settingsMenuOpen
    /\ settingsMenuOpen' = (IF ~hasValidationError THEN FALSE
                            ELSE settingsMenuOpen)
    /\ lastHandler' = "handleClickOutside"
    /\ UNCHANGED <<activeTab, validationError, editorSettings>>
    /\ UNCHANGED notPanelVars

\* A click on the X of the menu, rendered while there is no error.
CloseButton ==
    /\ settingsMenuOpen
    /\ ~hasValidationError
    /\ settingsMenuOpen' = FALSE
    /\ lastHandler' = "closeButton"
    /\ UNCHANGED <<activeTab, validationError, editorSettings>>
    /\ UNCHANGED notPanelVars

HandleBandwidthCheckboxChange ==
    \E type \in {"tcp", "udp"}, checked \in BOOLEAN :
        EditorUpdate("handleBandwidthCheckboxChange",
                     handleBandwidthCheckboxChange(editorSettings, type,
                                                   checked))

HandleServerChange ==
    \E value \in TypedAddresses :
        EditorUpdate("handleServerChange",
                     updateSettings(editorSettings,
                                    [iperfServerAdrs |-> value]))

\* A click on an entry of the dropdown that lists the history.
HandleServerSelect ==
    \E i \in DOMAIN editorSettings.iperfServerHistory :
        EditorUpdate("handleServerSelect",
                     updateSettings(editorSettings,
                         [iperfServerAdrs |->
                              editorSettings.iperfServerHistory[i]]))

HandleServerBlur ==
    EditorUpdate("handleServerBlur", handleServerBlur(editorSettings))

PanelInit ==
    /\ InitRun
    /\ ExtractIdle
    /\ ToastMounted
    /\ \E history \in InitialHistories, error \in ValidationErrors,
          menuOpen \in BOOLEAN :
           PanelAtLoad(history, error, menuOpen)

PanelNext ==
    \/ HandleTabChange
    \/ ToggleSettingsMenu
    \/ HandleClickOutside
    \/ CloseButton
    \/ HandleBandwidthCheckboxChange
    \/ HandleServerChange
    \/ HandleServerSelect
    \/ HandleServerBlur

PanelSpec == PanelInit /\ [][PanelNext]_vars

(***************************************************************************)
(* Properties                                                              *)
(***************************************************************************)
Last(q) == q[Len(q)]

\* The progress a message carries, if it carries one.
ProgressOf(m) == IF "progress" \in DOMAIN m THEN Some(m.progress) ELSE Null

\* The before and after snapshots disagree on the network's identity.
Mismatch(before, after) ==
    \/ before.ssid # after.ssid
    \/ before.bssid # after.bssid
    \/ before.band # after.band
    \/ before.channel # after.channel

BothSampled == wifiDataBefore # Null /\ wifiDataAfter # Null

\* C1 (as claimed): every run, whatever terminal state it ends in, has
\* published exactly one "done" message when the call returns or rejects.
C1_ExactlyOneDone == pc \in FinalPcs => doneCount = 1

\* C2 (as claimed): when the before and after snapshots disagree on ssid,
\* bssid, band or channel, the run returns neither bandwidth results nor a
\* Wi-Fi result, and a non-empty status other than the cancellation status.
C2_MismatchAborts ==
    (pc = "returned" /\ ~cancelSeen /\ BothSampled
        /\ Mismatch(The(wifiDataBefore), The(wifiDataAfter)))
    => /\ The(result).iperfData = Null
       /\ The(result).wifiData = Null
       /\ The(result).status \notin {"", "test was cancelled"}

\* C3: once a checkForCancel() has seen the flag set, the call has returned
\* {iperfData: null, wifiData: null, status: "test was cancelled"} in that
\* same step, however many sub-tests had completed, and no further attempt
\* or sample was started.
C3_CancelReturnsAtOnce ==
    cancelSeen => /\ pc = "returned"
                  /\ result = Some(CancelledResult)
                  /\ attempts = 1
                  /\ calls.getWifi = Len(wifiStrengths)

\* A run cancelled at the checkpoint after all four sub-tests.
C3_Witness ==
    /\ cancelSeen
    /\ pc = "returned"
    /\ completedTests = 4
    /\ calls.runSingleTest = 4

\* C4: when the flag is set as the "before" getWifi() returns its sample,
\* with TCP and UDP enabled and the server reachable, the run returns the
\* cancelled result in that step and has invoked no bandwidth sub-test.
C4_CancelBeforeTests ==
    [][(/\ pc = "getWifiBefore"
        /\ cancelFlag
        /\ wifiDataBefore' # Null
        /\ performIperfTest
        /\ settings.iperfTcpEnabled
        /\ settings.iperfUdpEnabled)
       => (/\ pc' = "returned"
           /\ result' = Some(CancelledResult)
           /\ calls'.runSingleTest = 0)]_vars

\* A run with both protocols enabled, cancelled on its first sample.
C4_Witness ==
    /\ pc = "returned"
    /\ cancelSeen
    /\ Len(wifiStrengths) = 1
    /\ wifiDataBefore # Null
    /\ performIperfTest
    /\ settings.iperfServerAdrs # "localhost"
    /\ settings.iperfTcpEnabled
    /\ settings.iperfUdpEnabled
    /\ calls.runSingleTest = 0

\* Successive messages never carry a smaller progress.
ProgressNeverDecreases ==
    \A i \in 1 .. Len(sse) - 1 :
        (ProgressOf(sse[i]) # Null /\ ProgressOf(sse[i + 1]) # Null)
        => sse[i].progress <= sse[i + 1].progress

\* C5 (as claimed): the progress of successive messages of a run never
\* decreases, and every "done" message carries progress exactly 100.
C5_DoneCarries100 ==
    /\ ProgressNeverDecreases
    /\ \A i \in 1 .. Len(sse) :
           IsDone(sse[i]) => ProgressOf(sse[i]) = Some(100)

\* C5 (amended): the progress of successive messages of a run never
\* decreases; the "done" message made from the progress record carries
\* progress exactly 100, and the "done" message of the top-level catch
\* (header "Error") carries no progress at all.
C5_DoneFromRecordCarries100 ==
    /\ ProgressNeverDecreases
    /\ \A i \in 1 .. Len(sse) :
           IsDone(sse[i]) =>
               IF sse[i].header = "Error"
               THEN ProgressOf(sse[i]) = Null
               ELSE ProgressOf(sse[i]) = Some(100)

\* The final message of a run of four sub-tests, with the one before it.
C5_Witness ==
    /\ completedTests = 4
    /\ Len(sse) >= 2
    /\ IsDone(Last(sse))
    /\ Last(sse).header = "Measurement complete"
    /\ ProgressOf(Last(sse)) = Some(100)

\* C6 (as claimed): a failure other than cancellation ends the run with the
\* "done" message of header "Error" and status "Error taking measurements"
\* as its only "done" message, and the call rejects.
C6_FailureReportedAndRaised ==
    (pc \in FinalPcs /\ failure # Null)
    => /\ pc = "raised"
       /\ doneCount = 1
       /\ sse # <<>>
       /\ Last(sse) = ErrorMessage

\* C7 (as claimed): a run that returns an empty status has passed the
\* consistency validation and returns a Wi-Fi result.
C7_EmptyStatusOnlyOnSuccess ==
    (pc = "returned" /\ The(result).status = "")
    => /\ The(result).wifiData # Null
       /\ BothSampled
       /\ ~Mismatch(The(wifiDataBefore), The(wifiDataAfter))

\* C8: after preflightSettings() has answered a non-empty reason the call
\* has returned {iperfData: null, wifiData: null, status: reason} and the
\* run has called nothing but preflightSettings().
C8_PreflightReasonReturned ==
    (preResults # Null /\ The(preResults).reason # "")
    => /\ pc = "returned"
       /\ result = Some([iperfData |-> Null, wifiData |-> Null,
                         status |-> The(preResults).reason])
       /\ calls = [NoCalls EXCEPT !.preflightSettings = 1]

\* A run that preflight has blocked.
C8_Witness ==
    /\ pc = "returned"
    /\ preResults # Null
    /\ The(preResults).reason # ""
    /\ result # Null

\* The first message of the run is the initial one.
FirstIsInitial ==
    /\ firstMsg # Null
    /\ The(firstMsg).type = "update"
    /\ The(firstMsg).header = "Measurement beginning"
    /\ The(firstMsg).progress = 0

\* C9 (as claimed): the initial message of a run is published before any
\* adapter call of the run has returned; so once preflightSettings() has
\* returned and let the run go on, the initial message is out.
C9_InitialBeforeAnyReturn ==
    (preResults # Null /\ The(preResults).reason = "") => FirstIsInitial

\* C9 (amended): the initial message is published before scanWifi() or
\* getWifi() is called, and only after preflightSettings() has returned an
\* empty reason and, unless the server is "localhost", checkIperfServer()
\* has returned.
C9_InitialBeforeScan ==
    /\ (calls.scanWifi > 0 \/ calls.getWifi > 0) => FirstIsInitial
    /\ firstMsg # Null =>
           /\ preResults # Null
           /\ The(preResults).reason = ""
           /\ pc # "checkIperf"
           /\ calls.checkIperfServer =
                  (IF settings.iperfServerAdrs = "localhost" THEN 0 ELSE 1)

\* scanWifi() is in flight, after checkIperfServer(), and the initial
\* message is out.
C9_Witness ==
    /\ pc = "scanWifi"
    /\ calls.checkIperfServer = 1
    /\ FirstIsInitial
    /\ Len(sse) = 1

\* checkIperfServer() has answered a non-empty reason.
ProbeFailed ==
    /\ settings.iperfServerAdrs # "localhost"
    /\ calls.checkIperfServer = 1
    /\ noIperfTestReason # ""

\* C10: after checkIperfServer() has answered a non-empty reason no
\* bandwidth sub-test is invoked, and a run that is not cancelled and whose
\* before and after snapshots agree has sampled getWifi() three times and
\* returns an empty status, a Wi-Fi result and four "not run" bandwidth
\* results.
C10_ProbeFailureSkipsTests ==
    ProbeFailed
    => /\ calls.runSingleTest = 0
       /\ pc \notin TestPcs
       /\ (/\ pc = "returned"
           /\ ~cancelSeen
           /\ BothSampled
           /\ ~Mismatch(The(wifiDataBefore), The(wifiDataAfter)))
          => /\ calls.getWifi = 3
             /\ Len(wifiStrengths) = 3
             /\ The(result).status = ""
             /\ The(result).wifiData # Null
             /\ The(result).iperfData =
                    Some([tcpDownload |-> NullResult, tcpUpload |-> NullResult,
                          udpDownload |-> NullResult, udpUpload |-> NullResult])

\* A run with both protocols enabled whose probe failed and that succeeded.
C10_Witness ==
    /\ ProbeFailed
    /\ settings.iperfTcpEnabled
    /\ settings.iperfUdpEnabled
    /\ pc = "returned"
    /\ calls.getWifi = 3
    /\ The(result).status = ""
    /\ The(result).wifiData # Null

\* Message m has a status line `label: value`.
HasLine(m, label, value) ==
    \E i \in DOMAIN m.status : m.status[i] = Line(label, value)

\* C11 (as claimed): when a protocol is enabled in the settings and
\* bandwidth testing is unavailable, the status published once that
\* protocol's phase is over has a line for the protocol showing the reason
\* ("Not performed" for localhost, the probe's reason otherwise).
C11_UnavailableReasonShown ==
    (pc \in {"getWifiMiddle", "getWifiAfter"} /\ ~performIperfTest)
    => /\ settings.iperfTcpEnabled
          => HasLine(Last(sse), "TCP", Text(noIperfTestReason))
       /\ (pc = "getWifiAfter" /\ settings.iperfUdpEnabled)
          => HasLine(Last(sse), "UDP", Text(noIperfTestReason))

\* C12: with the server "localhost" checkIperfServer() is never called and
\* no sub-test is invoked; with no test to run every progress published is
\* 0 or 100, it is 0 up to the second sample and 100 from the message that
\* precedes the third sample on.
C12_LocalhostSkipsBandwidth ==
    /\ settings.iperfServerAdrs = "localhost"
       => /\ calls.checkIperfServer = 0
          /\ calls.runSingleTest = 0
          /\ pc \notin TestPcs \cup {"checkIperf"}
          /\ pc = "getWifiAfter" => ProgressOf(Last(sse)) = Some(100)
          /\ (pc = "returned" /\ doneCount = 1)
             => ProgressOf(Last(sse)) = Some(100)
    /\ (~performIperfTest \/ totalTests(Cur) = 0)
       => /\ \A i \in DOMAIN sse : ProgressOf(sse[i]) \subseteq {0, 100}
          /\ pc \in {"scanWifi", "getWifiBefore", "getWifiMiddle"}
             => ProgressOf(Last(sse)) = Some(0)

\* A localhost run about to take its third sample: the message after the
\* second sample carried 0 and the next one, before the third, carries 100.
C12_Witness ==
    /\ settings.iperfServerAdrs = "localhost"
    /\ pc = "getWifiAfter"
    /\ Len(sse) = 3
    /\ ProgressOf(sse[2]) = Some(0)
    /\ ProgressOf(sse[3]) = Some(100)

\* What a step taken while a sub-test is in flight may do.
StepOfTestInFlight ==
    pc \in TestPcs
    => /\ cancelFlag' # cancelFlag
          => /\ pc' = pc
             /\ progressInterval'
             /\ calls' = calls
             /\ result' = result
       /\ (pc' # pc \/ cancelSeen')
          => /\ completedTests' = completedTests + 1
             /\ ~progressInterval' \/ pc' \in TestPcs
             /\ calls'.runSingleTest >= completedTests'

\* C13: while a sub-test is in flight a stop request changes nothing but
\* the flag, the run leaves the sub-test only by its completion (the test
\* is counted and its result stored), and a cancellation is only seen in a
\* step that completes a sub-test.
C13_StartedTestRunsToCompletion == [][StepOfTestInFlight]_vars

\* A run cancelled at the checkpoint after the TCP tests: the flag was set
\* while one of them was in flight, and both have run to completion.
C13_Witness ==
    /\ pc = "returned"
    /\ cancelSeen
    /\ Len(wifiStrengths) = 1
    /\ completedTests = 2
    /\ calls.runSingleTest = 2
    /\ newIperfData.tcpDownload.bitsPerSecond = Some(500)
    /\ newIperfData.tcpUpload.bitsPerSecond = Some(500)

C15_OnlyLaterStopCancels ==
    /\ (staleStop /\ ~stopRequested) => ~cancelFlag
    /\ cancelSeen => stopRequested

\* A run started with the flag left set has gone through all five
\* checkpoints and succeeded.
C15_Witness ==
    /\ staleStop
    /\ ~stopRequested
    /\ pc = "returned"
    /\ ~cancelSeen
    /\ The(result).status = ""
    /\ The(result).wifiData # Null

\* The field of newIperfData a sub-test's result is stored in.
SlotOf(at) ==
    CASE at = "tcpDown" -> "tcpDownload"
      [] at = "tcpUp" -> "tcpUpload"
      [] at = "udpDown" -> "udpDownload"
      [] at = "udpUp" -> "udpUpload"

AllNull(r) ==
    /\ r.bitsPerSecond = Null
    /\ r.retransmits = Null
    /\ r.jitterMs = Null
    /\ r.lostPackets = Null
    /\ r.packetsReceived = Null

\* The step in which the sub-test in flight settles.
SettlesTest == pc \in TestPcs /\ pc' # pc

\* What the step that settles a sub-test whose subprocess failed may do.
StepOfFailedTest ==
    /\ failure' # Some("runSingleTest")
    /\ (SettlesTest /\ lastTestFailed')
       => /\ AllNull(newIperfData'[SlotOf(pc)])
          /\ completedTests' = completedTests + 1
          /\ failure' = failure
          /\ pc' \in TestPcs \cup GetWifiPcs \/ cancelSeen'

\* C16: no run ever sees runSingleTest raise; when the subprocess fails to
\* execute or prints what cannot be parsed, the result stored for that
\* sub-test has bitsPerSecond, retransmits, jitterMs, lostPackets and
\* packetsReceived all null, and the run goes on to the next sub-test or
\* sample unless a checkpoint sees the flag.
C16_FailedTestYieldsNulls == [][StepOfFailedTest]_vars

\* A run whose last sub-test's subprocess failed and that went on to its
\* third sample and succeeded.
C16_Witness ==
    /\ pc = "returned"
    /\ lastTestFailed
    /\ completedTests = 4
    /\ newIperfData.udpUpload = NullResult
    /\ newIperfData.tcpDownload.bitsPerSecond = Some(500)
    /\ The(result).status = ""
    /\ The(result).wifiData # Null

\* What the callback publishes when it is called with 100 in this state.
CallbackMessage100 ==
    getUpdatedMessage([displayStates EXCEPT !.progress =
        MathRound(completedTests * 100 + 100, totalTests(Cur))])

\* What the polling timer and the step that settles a sub-test may do.
StepOfPollingTimer ==
    /\ progressInterval' => pc' \in TestPcs
    /\ SettlesTest
       => /\ Len(sse') \in {2, 3}
          /\ sse'[1] = Last(sse)
          /\ sse'[2] = CallbackMessage100
          /\ Len(sse') = 3 => sse'[3] # CallbackMessage100
          /\ progressInterval' => elapsed' = 0

\* C17: however the sub-test in flight settles, the step that settles it
\* publishes the callback's message for 100 once, first, and clears the
\* timer; a timer is set only while a sub-test is in flight, and after that
\* step only the timer of the next sub-test, not yet fired.
C17_TimerClearedAndFinal100 == [][StepOfPollingTimer]_vars

\* The first TCP test has settled with a failed subprocess after its timer
\* had fired: the callback's message for 100 followed the timer's message.
C17_Witness ==
    /\ pc = "tcpUp"
    /\ lastTestFailed
    /\ elapsed = 0
    /\ Len(sse) = 3
    /\ ProgressOf(sse[1]) = Some(20)
    /\ ProgressOf(sse[2]) = Some(25)

\* C18: the Wi-Fi result returned is the "before" snapshot with
\* signalStrength the mean of the three samples rounded to the nearest
\* integer and rssi the percentageToRssi of that mean.
C18_WifiResultIsAveragedBefore ==
    (pc = "returned" /\ The(result).wifiData # Null)
    => LET mean == (2 * SeqSum(wifiStrengths) + 3) \div 6
       IN  /\ Len(wifiStrengths) = 3
           /\ wifiStrengths[1] = The(wifiDataBefore).signalStrength
           /\ wifiStrengths[3] = The(wifiDataAfter).signalStrength
           /\ The(result).wifiData =
                  Some([The(wifiDataBefore) EXCEPT
                            !.signalStrength = mean,
                            !.rssi = percentageToRssi(mean)])

\* Samples 40, 40, 45 (mean 41.67) and a third sample whose rssi differs
\* from the first one's: the result carries 42.
C18_Witness ==
    /\ pc = "returned"
    /\ The(result).wifiData # Null
    /\ wifiStrengths = <<40, 40, 45>>
    /\ The(The(result).wifiData).signalStrength = 42

\* The report with every throughput of zero taken out of its section.
ZeroAsAbsent(report) ==
    LET Drop(section) ==
            IF section # Null /\ The(section).bits_per_second = Some(0)
            THEN Some([The(section) EXCEPT !.bits_per_second = Null])
            ELSE section
    IN  IF report.end = Null
        THEN report
        ELSE [report EXCEPT !.end = Some([The(report.end) EXCEPT
                                              !.sum_received = Drop(@),
                                              !.sum = Drop(@)])]

\* C19: extractIperfData never returns a bitsPerSecond of 0, and what it
\* returns for a report is what it returns for the same report with its
\* throughputs of zero absent.
C19_ZeroThroughputIsNull ==
    extracted # Null
    => /\ The(extracted).bitsPerSecond # Some(0)
       /\ The(extracted) = extractIperfData(ZeroAsAbsent(extractInput.result),
                                            extractInput.isUdp)

\* An older-schema report whose summary carries a throughput of 0.
C19_Witness ==
    /\ extracted # Null
    /\ extractInput.result.end # Null
    /\ The(extractInput.result.end).sum_received = Null
    /\ Field(The(extractInput.result.end).sum, "bits_per_second") = Some(0)
    /\ The(extracted).bitsPerSecond = Null

\* A figure as extractIperfData reports it: zero is reported as null.
Reported(figure) == IF figure = Some(0) THEN Null ELSE figure

\* C20: with end.sum_received present TCP reads the throughput of
\* end.sum_received and UDP that of end.sum; with end.sum_received absent
\* both read that of end.sum.
C20_ThroughputSourceBySchema ==
    (extracted # Null /\ extractInput.result.end # Null)
    => LET end == The(extractInput.result.end)
           fromReceived == Field(end.sum_received, "bits_per_second")
           fromSum == Field(end.sum, "bits_per_second")
           bps == The(extracted).bitsPerSecond
       IN  /\ (end.sum_received # Null /\ ~extractInput.isUdp)
              => bps = Reported(fromReceived)
           /\ (end.sum_received # Null /\ extractInput.isUdp)
              => bps = Reported(fromSum)
           /\ end.sum_received = Null => bps = Reported(fromSum)

\* A newer-schema UDP report whose two sections carry different figures:
\* the one of the summary is returned.
C20_Witness ==
    /\ extracted # Null
    /\ extractInput.isUdp
    /\ extractInput.result.end # Null
    /\ Field(The(extractInput.result.end).sum_received, "bits_per_second")
           = Some(500)
    /\ Field(The(extractInput.result.end).sum, "bits_per_second") = Some(51)
    /\ The(extracted).bitsPerSecond = Some(51)

\* What extractIperfData returns for the same report and the other protocol.
ExtractedForOther ==
    extractIperfData(extractInput.result, ~extractInput.isUdp)

\* C21 (as claimed): on a TCP result jitterMs, lostPackets and
\* packetsReceived are null, and on a UDP result retransmits is null.
C21_ProtocolFieldsExclusive ==
    extracted # Null
    => IF extractInput.isUdp
       THEN The(extracted).retransmits = Null
       ELSE /\ The(extracted).jitterMs = Null
            /\ The(extracted).lostPackets = Null
            /\ The(extracted).packetsReceived = Null

\* C21 (amended): on a TCP result jitterMs, lostPackets and packetsReceived
\* are null whatever the report holds; retransmits does not depend on the
\* protocol, so a UDP result carries the count the report's section gives.
C21_UdpFieldsNullOnTcp ==
    extracted # Null
    => /\ ~extractInput.isUdp
          => /\ The(extracted).jitterMs = Null
             /\ The(extracted).lostPackets = Null
             /\ The(extracted).packetsReceived = Null
       /\ The(extracted).retransmits = ExtractedForOther.retransmits

\* A TCP call on a report whose summary carries jitter, loss and packets.
C21_Witness ==
    /\ extracted # Null
    /\ ~extractInput.isUdp
    /\ extractInput.result.end # Null
    /\ Field(The(extractInput.result.end).sum, "jitter_ms") = Some(2)
    /\ Field(The(extractInput.result.end).sum, "lost_packets") = Some(0)
    /\ Field(The(extractInput.result.end).sum, "packets") = Some(90)
    /\ The(extracted).jitterMs = Null

\* C22 (as claimed): every UDP result has jitterMs, lostPackets and
\* packetsReceived non-null.
C22_UdpFieldsPopulated ==
    (extracted # Null /\ extractInput.isUdp)
    => /\ The(extracted).jitterMs # Null
       /\ The(extracted).lostPackets # Null
       /\ The(extracted).packetsReceived # Null

\* The field f of the summary as the report carries it.
RawSum(f) ==
    LET end == The(extractInput.result.end)
    IN  IF end.sum = Null THEN Null ELSE The(end.sum)[f]

\* C22 (amended): a UDP result of a report with an end section has for
\* jitterMs, lostPackets and packetsReceived what the summary carries for
\* jitter_ms, lost_packets and packets, a 0 included, and null for each one
\* the summary lacks; with no end section all three are null.
C22_UdpFieldsFollowSummary ==
    (extracted # Null /\ extractInput.isUdp)
    => IF extractInput.result.end = Null
       THEN /\ The(extracted).jitterMs = Null
            /\ The(extracted).lostPackets = Null
            /\ The(extracted).packetsReceived = Null
       ELSE /\ The(extracted).jitterMs = RawSum("jitter_ms")
            /\ The(extracted).lostPackets = RawSum("lost_packets")
            /\ The(extracted).packetsReceived = RawSum("packets")

\* A UDP call on a report whose summary counts no lost packet and lacks a
\* jitter: the 0 is returned, the jitter is null.
C22_Witness ==
    /\ extracted # Null
    /\ extractInput.isUdp
    /\ extractInput.result.end # Null
    /\ The(extractInput.result.end).sum # Null
    /\ RawSum("lost_packets") = Some(0)
    /\ RawSum("jitter_ms") = Null
    /\ The(extracted).lostPackets = Some(0)
    /\ The(extracted).jitterMs = Null

\* C23: for a report with no end section extractIperfData returns, for
\* either protocol and whatever error text the report carries, the result
\* whose bitsPerSecond, retransmits, jitterMs, lostPackets and
\* packetsReceived are all null.
C23_NoEndYieldsAllNull ==
    (extracted # Null /\ extractInput.result.end = Null)
    => /\ AllNull(The(extracted))
       /\ extracted = Some(ExtractedForOther)

\* A UDP call on a report that has an error text and no end section.
C23_Witness ==
    /\ extracted # Null
    /\ extractInput.isUdp
    /\ extractInput.result.end = Null
    /\ extractInput.result.error # Null
    /\ AllNull(The(extracted))

\* A step of the run taken while the flag is set.
RunStepWithFlag ==
    /\ pc \notin {"idle"} \cup FinalPcs
    /\ cancelFlag
    /\ cancelFlag'

\* An adapter call in flight returns (it does not throw).
AdapterCallReturns ==
    /\ pc \in {"preflight", "checkIperf", "scanWifi"} \cup GetWifiPcs
    /\ pc' # pc
    /\ failure' = failure

\* The flag is looked at after every adapter call and nowhere else.
ClaimedCheckpoints ==
    RunStepWithFlag => (cancelSeen' <=> AdapterCallReturns)

\* C24 (as claimed): whenever preflightSettings, checkIperfServer,
\* scanWifi or getWifi returns the flag is looked at before anything else
\* is started, and it is looked at in no other step.
C24_CheckedAfterEveryAdapterCall == [][ClaimedCheckpoints]_vars

\* The flag is looked at when a getWifi() returns and when the upload test
\* of a protocol settles, and in no other step.
CodeCheckpoints ==
    RunStepWithFlag
    => (cancelSeen' <=> \/ pc \in GetWifiPcs /\ pc' # pc /\ failure' = failure
                        \/ pc \in {"tcpUp", "udpUp"} /\ pc' # pc)

\* C24 (amended): the flag is looked at after each getWifi() returns and
\* after the second sub-test of the TCP and of the UDP phase has settled,
\* and nowhere else: not after preflightSettings, checkIperfServer or
\* scanWifi, and not between a download and its upload.
C24_CheckedAfterSamplesAndPhases == [][CodeCheckpoints]_vars

\* A run of a probed server cancelled by the check after its second sample.
C24_Witness ==
    /\ pc = "returned"
    /\ cancelSeen
    /\ calls.checkIperfServer = 1
    /\ calls.scanWifi = 1
    /\ calls.getWifi = 2
    /\ Len(wifiStrengths) = 2

\* The run has started a UDP sub-test.
UdpStarted ==
    /\ udpEnabled(Cur)
    /\ calls.runSingleTest > (IF tcpEnabled(Cur) THEN 2 ELSE 0)

\* C25 (as claimed): a run that has entered the UDP phase does not end
\* cancelled before its third getWifi() call has been made.
C25_NoCancelBeforeThirdSample ==
    (UdpStarted /\ cancelSeen) => calls.getWifi = 3

\* What the step that settles a UDP sub-test may do.
StepLeavingUdpTest ==
    (pc \in {"udpDown", "udpUp"} /\ pc' # pc)
    => IF pc = "udpDown"
       THEN pc' = "udpUp" /\ ~cancelSeen'
       ELSE IF cancelFlag
       THEN /\ cancelSeen'
            /\ pc' = "returned"
            /\ result' = Some(CancelledResult)
            /\ calls'.getWifi = 2
            /\ completedTests' = totalTests(Cur)
       ELSE pc' = "getWifiAfter" /\ calls'.getWifi = 3

\* C25 (amended): no stop request takes effect between the UDP download
\* and the UDP upload, but the flag is looked at when the UDP upload has
\* settled: if it is set the run ends cancelled with two getWifi() calls
\* made, otherwise the third getWifi() is called.
C25_CancelAfterUdpPhase == [][StepLeavingUdpTest]_vars

\* A run cancelled by the check after its UDP tests, both completed.
C25_Witness ==
    /\ UdpStarted
    /\ cancelSeen
    /\ pc = "returned"
    /\ calls.getWifi = 2
    /\ completedTests = totalTests(Cur)
    /\ displayStates.progress = 100

\* The place of each await in the order the claim gives.
Rank(at) ==
    CASE at = "preflight" -> 1
      [] at = "checkIperf" -> 2
      [] at = "scanWifi" -> 3
      [] at = "getWifiBefore" -> 4
      [] at = "tcpDown" -> 5
      [] at = "tcpUp" -> 6
      [] at = "tcpDelay" -> 6
      [] at = "getWifiMiddle" -> 7
      [] at = "udpDown" -> 8
      [] at = "udpUp" -> 9
      [] at = "udpDelay" -> 9
      [] at = "getWifiAfter" -> 10
      [] at \in FinalPcs -> 11

\* The operation awaited at each place.
OperationAt(at) ==
    CASE at = "preflight" -> "preflightSettings"
      [] at = "checkIperf" -> "checkIperfServer"
      [] at = "scanWifi" -> "scanWifi"
      [] at \in GetWifiPcs -> "getWifi"
      [] at \in TestPcs -> "runSingleTest"

\* A step of the run moves on in the order of Rank and starts at most the
\* one call awaited at the place it moves to.
StepInOrder ==
    pc \notin {"idle"} \cup FinalPcs
    => IF pc' = pc
       THEN calls' = calls
       ELSE /\ Rank(pc') > Rank(pc)
            /\ calls' = IF pc' \in FinalPcs \cup DelayPcs
                        THEN calls
                        ELSE [calls EXCEPT ![OperationAt(pc')] = @ + 1]

\* The run has returned a Wi-Fi result: it was neither cancelled nor failed.
CompletedRun == pc = "returned" /\ The(result).wifiData # Null

\* What a completed run has called, and what its validation found.
CallsOfCompletedRun ==
    /\ pc \in {"tcpDown", "tcpUp"}
       => settings.iperfTcpEnabled /\ performIperfTest
    /\ pc \in {"udpDown", "udpUp"}
       => settings.iperfUdpEnabled /\ performIperfTest
    /\ CompletedRun
       => /\ calls.preflightSettings = 1
          /\ calls.checkIperfServer =
                 (IF settings.iperfServerAdrs = "localhost" THEN 0 ELSE 1)
          /\ calls.scanWifi = 1
          /\ calls.getWifi = 3
          /\ calls.runSingleTest =
                 (IF performIperfTest /\ settings.iperfTcpEnabled THEN 2 ELSE 0)
                 + (IF performIperfTest /\ settings.iperfUdpEnabled THEN 2 ELSE 0)
          /\ completedTests = calls.runSingleTest
          /\ ~Mismatch(The(wifiDataBefore), The(wifiDataAfter))

\* C26: the calls of a run are started one at a time in the order
\* preflightSettings, checkIperfServer, scanWifi, getWifi, TCP download,
\* TCP upload, getWifi, UDP download, UDP upload, getWifi, none of them
\* twice; a run that returns a Wi-Fi result has called preflightSettings
\* and scanWifi once, checkIperfServer once unless the server is
\* "localhost", getWifi three times and each sub-test of an enabled
\* protocol once, and its validation has passed.
C26_CallsOnceInOrder == []CallsOfCompletedRun /\ [][StepInOrder]_vars

\* A completed run of a probed server with both protocols enabled.
C26_Witness ==
    /\ CompletedRun
    /\ calls = [preflightSettings |-> 1, checkIperfServer |-> 1,
                scanWifi |-> 1, getWifi |-> 3, runSingleTest |-> 4]

\* The last message published is the one of a timer callback of the
\* sub-test in flight.
TickPublished == pc \in TestPcs /\ elapsed > 0 /\ reported # Null

\* round((k + p/100) * 100/N) in exact arithmetic, halves upwards.
ExactShare(N, k, p) == (2 * (100 * k + p) + N) \div (2 * N)

\* (k + p/100) * 100/N lies exactly half way between two integers.
OnHalf(N, k, p) ==
    /\ (2 * (100 * k + p)) % N = 0
    /\ (100 * k + p) % N # 0

\* C27 (as claimed): every progress value published from a sub-test's
\* callback equals round((k + p/100) * 100/N) and lies in 0..100.
C27_ProgressIsExactShare ==
    TickPublished
    => /\ ProgressOf(Last(sse)) =
              Some(ExactShare(totalTests(Cur), completedTests, The(reported)))
       /\ Last(sse).progress \in 0 .. 100

\* C27 (amended): the value published from a sub-test's callback lies in
\* 0..100 and equals round((k + p/100) * 100/N), except that where that
\* quantity lies exactly half way between two integers the value may be
\* the integer below instead of the one above.
C27_ProgressIsShareUpToHalves ==
    TickPublished
    => LET N == totalTests(Cur)
           k == completedTests
           p == The(reported)
           v == Last(sse).progress
       IN  /\ N \in {2, 4}
           /\ v \in 0 .. 100
           /\ v = displayStates.progress
           /\ IF OnHalf(N, k, p)
              THEN v \in {ExactShare(N, k, p) - 1, ExactShare(N, k, p)}
              ELSE v = ExactShare(N, k, p)

\* The first of two sub-tests is 29% through: 14.5 is published as 14.
C27_Witness ==
    /\ TickPublished
    /\ totalTests(Cur) = 2
    /\ completedTests = 0
    /\ reported = Some(29)
    /\ ProgressOf(Last(sse)) = Some(14)

\* C28: what the callback is called with is an integer in 0..100; while a
\* sub-test is in flight and its timer has fired it is at most 99, and it
\* is 100 only once a sub-test has settled.
C28_TimerReportsAtMost99 ==
    reported # Null
    => /\ The(reported) \in 0 .. 100
       /\ TickPublished => The(reported) <= ProgressCap
       /\ The(reported) = 100 => completedTests >= 1

\* A timer callback run 1090 ms into a test of one second reports 99.
C28_Witness ==
    /\ TickPublished
    /\ elapsed = 5
    /\ settings.testDuration = 1
    /\ reported = Some(99)
    /\ completedTests = 0

\* An error other than cancellation was thrown inside the loop body.
FailedInLoop == failure \in {Some("getWifi"), Some("consistency")}

InitialSnapshot ==
    getUpdatedMessage(
        [type |-> "update",
         header |-> "Measurement beginning",
         strength |-> "-",
         tcp |-> Text("-/- Mbps"),
         udp |-> Text("-/- Mbps"),
         tcpEnabled |-> performIperfTest /\ settings.iperfTcpEnabled,
         udpEnabled |-> performIperfTest /\ settings.iperfUdpEnabled,
         progress |-> 0])

\* C30: in every run, the first after load or a later one, the first
\* message published is the initial snapshot, with the enabled flags of
\* this run, whatever the record held when the run began.
C30_FirstMessageIsInitialSnapshot ==
    firstMsg # Null => firstMsg = Some(InitialSnapshot)

\* A later run awaits checkIperfServer() while the record still holds the
\* end of the run before (type "done", progress 100, a measured strength
\* and TCP figures); the message published when the call returns is the
\* initial snapshot.
C30_Witness ==
    /\ pc = "checkIperf"
    /\ firstMsg = Null
    /\ displayStates.type = "done"
    /\ displayStates.header = "Measurement complete"
    /\ displayStates.progress = 100
    /\ displayStates.strength # "-"
    /\ displayStates.tcp # Text("-/- Mbps")
    /\ settings.iperfTcpEnabled /\ ~settings.iperfUdpEnabled
    /\ AfterCheckIperfServer(Cur, [reason |-> ""]).out = <<InitialSnapshot>>
    /\ Len(InitialSnapshot.status) = 2

\* The four fields that identify the network.
IdentityFields == {"bssid", "ssid", "band", "channel"}

\* The run went as far as comparing the first sample with the third.
Validated ==
    /\ pc \in FinalPcs
    /\ BothSampled
    /\ result # Null
    /\ The(result).status = ""

\* C31: the before/after pair is accepted exactly when the two entries
\* have the same bssid, ssid, band and channel; a difference in
\* signalStrength or rssi never makes it rejected.
C31_AcceptedIffSameNetwork ==
    Validated
    => ((failure = Null /\ The(result).wifiData # Null)
        <=> \A f \in IdentityFields :
                The(wifiDataBefore)[f] = The(wifiDataAfter)[f])

\* A pair that differs in both signalStrength and rssi has been accepted.
C31_Witness ==
    /\ Validated
    /\ The(wifiDataBefore).signalStrength # The(wifiDataAfter).signalStrength
    /\ The(wifiDataBefore).rssi # The(wifiDataAfter).rssi
    /\ The(result).wifiData # Null

\* The retransmit count as the report carries it in the section the schema
\* selects.
RawRetransmits ==
    LET end == The(extractInput.result.end)
    IN  IF end.sum_received # Null
        THEN (IF end.sum_sent = Null THEN Null
              ELSE The(end.sum_sent).retransmits)
        ELSE (IF end.sum = Null THEN Null ELSE The(end.sum).retransmits)

\* C32: for a report with an end section, retransmits is what
\* end.sum_sent.retransmits holds when end.sum_received is present and what
\* end.sum.retransmits holds otherwise, null when that field is absent,
\* for either protocol; and with the older schema bitsPerSecond too is the
\* same for TCP and for UDP.
C32_RetransmitsBySchema ==
    (extracted # Null /\ extractInput.result.end # Null)
    => /\ The(extracted).retransmits = RawRetransmits
       /\ The(extractInput.result.end).sum_received = Null
          => The(extracted).bitsPerSecond = ExtractedForOther.bitsPerSecond

\* A UDP call on an older-schema report with a throughput and 3
\* retransmits returns both.
C32_Witness ==
    /\ extracted # Null
    /\ extractInput.isUdp
    /\ extractInput.result.end # Null
    /\ The(extractInput.result.end).sum_received = Null
    /\ The(extractInput.result.end).sum_sent # Null
    /\ RawSum("retransmits") = Some(3)
    /\ The(extracted).retransmits = Some(3)
    /\ The(extracted).bitsPerSecond = Some(51)

\* C33 (as claimed): while a sub-test's subprocess is in flight the
\* progress held in the record, and the progress of the message a timer
\* callback of that sub-test has published, are below 100.
C33_Below100WhileInFlight ==
    pc \in TestPcs
    => /\ displayStates.progress < 100
       /\ TickPublished => Last(sse).progress < 100

\* C34 (as claimed): when a run has ended and its last message is the
\* "done" message headed "Measurement complete", the run passed validation
\* and returned a Wi-Fi result.
C34_CompleteOnlyWhenValidated ==
    (/\ pc \in FinalPcs
     /\ sse # <<>>
     /\ Last(sse).type = "done"
     /\ Last(sse).header = "Measurement complete")
    => /\ failure = Null
       /\ result # Null
       /\ The(result).wifiData # Null

\* The upload sub-test that follows a download sub-test.
UploadOf(at) == IF at = "tcpDown" THEN "tcpUp" ELSE "udpUp"

\* What the step that ends a download, and the step that ends an upload
\* with the flag set, do.
StepAtEndOfSubTest ==
    /\ (pc \in {"tcpDown", "udpDown"} /\ pc' # pc)
       => /\ pc' = UploadOf(pc)
          /\ calls'.runSingleTest = calls.runSingleTest + 1
          /\ progressInterval'
          /\ cancelSeen' = cancelSeen
          /\ result' = Null
    /\ (pc \in {"tcpUp", "udpUp"} /\ pc' # pc /\ cancelFlag)
       => /\ pc' = "returned"
          /\ cancelSeen'
          /\ completedTests' = completedTests + 1
          /\ result' = Some(CancelledResult)

\* C35: the step that ends a download sub-test starts the upload of the
\* same protocol whatever the flag holds, without looking at it; with the
\* flag set, the run is cancelled only in the step that ends the upload.
C35_UploadFollowsDownload == [][StepAtEndOfSubTest]_vars

\* The flag is set while the TCP download is in flight, its timer having
\* fired: whatever the subprocess answers, the upload is started next.
C35_Witness ==
    /\ pc = "tcpDown"
    /\ cancelFlag
    /\ elapsed > 0
    /\ \A outcome \in ExecOutcomes :
           /\ SingleTestSettles(Cur, outcome).pc = "tcpUp"
           /\ SingleTestSettles(Cur, outcome).calls.runSingleTest = 2
           /\ SingleTestSettles(Cur, outcome).result = Null

\* C36 (as claimed): onClose() is called at most once for one toast.
C36_OnCloseAtMostOnce == onCloseCalls <= 1

\* What a step taken while validateIperfSettings reports an error may do.
StepUnderValidationError ==
    hasValidationError
    => /\ activeTab' = activeTab
       /\ settingsMenuOpen => settingsMenuOpen'
       /\ lastHandler' = "handleTabChange" => settingsMenuOpen'

\* C37: while validateIperfSettings reports an error no handler of
\* TabPanel changes the active tab or closes the settings menu, and a
\* tab-change request leaves the menu open.
C37_ErrorKeepsTabAndMenu == [][StepUnderValidationError]_vars

\* A tab change was asked for while the settings as loaded have an error:
\* the tab is the first one still and the menu is open.
C37_Witness ==
    /\ hasValidationError
    /\ lastHandler = "handleTabChange"
    /\ activeTab = "tab1"
    /\ settingsMenuOpen
    /\ editorSettings.iperfServerAdrs = "localhost"
    /\ ~editorSettings.iperfTcpEnabled /\ ~editorSettings.iperfUdpEnabled

\* What a call of handleBandwidthCheckboxChange leaves.
StepOfCheckboxChange ==
    lastHandler' = "handleBandwidthCheckboxChange"
    => LET old == editorSettings
           new == editorSettings'
       IN  /\ new.iperfServerHistory = old.iperfServerHistory
           /\ IF new.iperfTcpEnabled \/ new.iperfUdpEnabled
              THEN /\ new.iperfServerAdrs # "localhost"
                   /\ new.iperfServerAdrs =
                          (IF old.iperfServerAdrs = "localhost" THEN ""
                           ELSE old.iperfServerAdrs)
              ELSE new.iperfServerAdrs = "localhost"

\* C38: after every call of handleBandwidthCheckboxChange the server is
\* "localhost" if both protocols are disabled, and otherwise is not
\* "localhost": "" if it was "localhost" before, else what it was.
C38_LocalhostIffNoTest == [][StepOfCheckboxChange]_vars

\* TCP has been enabled with the server at "localhost": it is now "".
C38_Witness ==
    /\ lastHandler = "handleBandwidthCheckboxChange"
    /\ editorSettings.iperfTcpEnabled
    /\ ~editorSettings.iperfUdpEnabled
    /\ editorSettings.iperfServerAdrs = ""

\* At most HistoryLimit entries, each once, none "localhost" or empty.
HistoryWellFormed ==
    LET history == editorSettings.iperfServerHistory
    IN  /\ Len(history) <= HistoryLimit
        /\ \A i, j \in DOMAIN history : history[i] = history[j] => i = j
        /\ \A i \in DOMAIN history : history[i] \notin {"", "localhost"}

\* What a call of handleServerBlur does to the history.
StepOfServerBlur ==
    lastHandler' = "handleServerBlur"
    => LET history == editorSettings.iperfServerHistory
           after == editorSettings'.iperfServerHistory
           server == Trim(editorSettings.iperfServerAdrs)
       IN  /\ Includes(history, server) => after = history
           /\ after # history
              => /\ after[1] = server
                 /\ Tail(after) = SubSeq(history, 1, Len(after) - 1)

\* C39: the history always holds at most 10 entries, no entry twice and
\* neither "localhost" nor an empty string; a call of handleServerBlur that
\* changes it puts the new server first, before the entries of before in
\* their order, and a call with a server it holds leaves it as it is.
C39_HistoryBoundedDistinct == []HistoryWellFormed /\ [][StepOfServerBlur]_vars

\* A blur on " s11 " with a full history: "s11" is first and "s10", the
\* last entry of before, is gone.
C39_Witness ==
    /\ lastHandler = "handleServerBlur"
    /\ Len(editorSettings.iperfServerHistory) = HistoryLimit
    /\ editorSettings.iperfServerHistory[1] = "s11"
    /\ editorSettings.iperfServerHistory[2] = "s1"
    /\ editorSettings.iperfServerHistory[HistoryLimit] = "s9"
    /\ editorSettings.iperfServerAdrs = " s11 "

=============================================================================
